---- MODULE Spec2Model ----
(***************************************************************************)
(* air-canvas: the gesture interpretation pipeline.                        *)
(*                                                                         *)
(*   recognizeGesture   static pose classifier over 21 hand landmarks      *)
(*   GestureStabilizer  sliding-window majority vote over raw results      *)
(*   ShapeRecognizer    trajectory buffer and line/circle/rectangle fit    *)
(*                                                                         *)
(* Numbers.  The code computes in IEEE doubles; the model computes in      *)
(* fixed point.  A normalized coordinate v is the integer v * Scale, so    *)
(* landmarks and cursor points lie on a 1/100 grid.  Confidences and       *)
(* distances are integers in units of 1/Unit (1/10000).  Comparisons of    *)
(* two distances are made on the squared distances, which orders them as   *)
(* Math.sqrt does.  A square root that is used as a number is IntSqrt,     *)
(* the integer square root, and a quotient is the integer quotient.        *)
(***************************************************************************)
EXTENDS Integers, Sequences, FiniteSets, TLC

VARIABLES
    landmarks,       \* the argument of recognizeGesture: Absent or Given(array)
    gesture,         \* the raw GestureResult of the current frame, NoResult or Thrown
    gestureHistory,  \* GestureStabilizer.gestureHistory
    stabilized,      \* what the last GestureStabilizer call returned (NoResult after reset)
    observed,        \* history: the raw results passed to addGesture since the last reset
    stale,           \* history: whether the last reset discarded any result
    twinHistory,     \* gestureHistory of a second GestureStabilizer
    twinStabilized,  \* what the second stabilizer's last call returned
    twinObserved,    \* history: the raw results the second stabilizer got since its last reset
    twinStale,       \* history: whether the second stabilizer's last reset discarded any
    trackPoints,     \* ShapeRecognizer.trackPoints
    now,             \* the clock Date.now() reads
    shapeResult,     \* what the last ShapeRecognizer call returned (NoResult if void)
    added,           \* history: the points passed to addPoint since the last clearTrack
    snapshot,        \* the array a caller holds from its last getTrackPoints call
    fitLog,          \* history: the last two recognizeShape calls that were logged
    stroke,          \* the stroke the user sets out to draw: first angle and stride
    results,         \* App: the detector results of the latest frame (useHandTracking)
    currentGesture,  \* App: the published gesture
    isTracking,      \* App: the tracking switch
    vectorMode,      \* App: drawingSettings.vectorMode
    vectorShapes,    \* App: the kinds of the completed vector shapes
    isDrawingVector, \* Canvas: whether a vector shape is being drawn
    previewShape,    \* Canvas: the kind of the preview shape, "null" if there is none
    canvasShapes,    \* Canvas: the kinds of the vector shapes of its own list
    timers,          \* Canvas: how many handleShapeRecognition timeouts are pending
    tracker,         \* useHandTracking: isLoading, error and the pending initialization
    handler          \* the host handler that ran last, and when it ran

vars == <<landmarks, gesture, gestureHistory, stabilized, observed, stale,
          twinHistory, twinStabilized, twinObserved, twinStale,
          trackPoints, now, shapeResult, added, snapshot, fitLog, stroke,
          results, currentGesture, isTracking, vectorMode, vectorShapes,
          isDrawingVector, previewShape, canvasShapes, timers, tracker, handler>>

classifierVars == <<landmarks, gesture>>
stabilizerVars == <<gestureHistory, stabilized, observed, stale>>
twinVars == <<twinHistory, twinStabilized, twinObserved, twinStale>>
recognizerVars == <<trackPoints, now, shapeResult, added>>
callerVars == <<snapshot, fitLog, stroke>>
hostVars == <<results, currentGesture, isTracking, vectorMode, vectorShapes,
              isDrawingVector, previewShape, canvasShapes, timers, tracker, handler>>

-----------------------------------------------------------------------------
(* Fixed point *)

\* The number 1 of a normalized coordinate.
Scale == 100

\* The number 1 of a confidence or a distance.
Unit == 10000

Abs(n) == IF n < 0 THEN -n ELSE n

Min(a, b) == IF a < b THEN a ELSE b

Max(a, b) == IF a > b THEN a ELSE b

\* Math.sqrt on integers: the largest s with s * s <= n.
RECURSIVE IntSqrt(_)
IntSqrt(n) ==
    IF n < 2 THEN n
    ELSE LET s == 2 * IntSqrt(n \div 4)
         IN  IF (s + 1) * (s + 1) <= n THEN s + 1 ELSE s

\* A possibly absent landmark array: null or undefined, or the array items.
Absent == [given |-> FALSE, items |-> <<>>]

Given(items) == [given |-> TRUE, items |-> items]

\* What a call left behind when it returned nothing, and when it threw.
NoResult == [returned |-> "nothing"]
Thrown == [returned |-> "exception"]

-----------------------------------------------------------------------------
(* Static pose classifier: src/src/utils/gestureRecognition.ts 1-146 *)

GestureKinds == {"draw", "erase", "menu", "none", "line", "rectangle", "circle"}

\* LANDMARKS
THUMB_TIP == 4
INDEX_FINGER_TIP == 8
INDEX_FINGER_PIP == 6
MIDDLE_FINGER_TIP == 12
MIDDLE_FINGER_PIP == 10
RING_FINGER_TIP == 16
PINKY_TIP == 20
WRIST == 0

\* The number of landmarks of a hand pose.
HandSize == 21

\* landmarks[i] of a JavaScript array: sequences count from 1.
At(lm, i) == lm.items[i + 1]

\* The distance taken in space: dz is added to dx and dy.
calculateDistanceSq_InSpace(point1, point2) ==
    LET dx == point1.x - point2.x
        dy == point1.y - point2.y
        dz == point1.z - point2.z
    IN  dx * dx + dy * dy + dz * dz

\* The square of calculateDistance(point1, point2), in grid units; z is not read.
calculateDistanceSq(point1, point2) ==
    LET dx == point1.x - point2.x
        dy == point1.y - point2.y
    IN  dx * dx + dy * dy

\* isFingerExtended counting a tip that is exactly as far as the joint.
isFingerExtended_OrEqual(lm, tipIndex, pipIndex) ==
    LET tip == At(lm, tipIndex)
        pip == At(lm, pipIndex)
        wrist == At(lm, WRIST)
        tipToWrist == calculateDistanceSq(tip, wrist)
        pipToWrist == calculateDistanceSq(pip, wrist)
    IN  tipToWrist >= pipToWrist

isFingerExtended(lm, tipIndex, pipIndex) ==
    LET tip == At(lm, tipIndex)
        pip == At(lm, pipIndex)
        wrist == At(lm, WRIST)
        tipToWrist == calculateDistanceSq(tip, wrist)
        pipToWrist == calculateDistanceSq(pip, wrist)
    IN  tipToWrist > pipToWrist

indexExtended(lm) == isFingerExtended(lm, INDEX_FINGER_TIP, INDEX_FINGER_PIP)
middleExtended(lm) == isFingerExtended(lm, MIDDLE_FINGER_TIP, MIDDLE_FINGER_PIP)
ringExtended(lm) == isFingerExtended(lm, RING_FINGER_TIP, RING_FINGER_TIP - 2)
pinkyExtended(lm) == isFingerExtended(lm, PINKY_TIP, PINKY_TIP - 2)

isDrawingGesture(lm) ==
    indexExtended(lm) /\ ~middleExtended(lm) /\ ~ringExtended(lm)

isErasingGesture(lm) ==
    ~indexExtended(lm) /\ ~middleExtended(lm) /\ ~ringExtended(lm) /\ ~pinkyExtended(lm)

isMenuGesture(lm) ==
    indexExtended(lm) /\ middleExtended(lm) /\ ringExtended(lm) /\ pinkyExtended(lm)

isLineGesture(lm) ==
    indexExtended(lm) /\ middleExtended(lm) /\ ~ringExtended(lm) /\ ~pinkyExtended(lm)

\* isCircleGesture without the test of the middle finger.
isCircleGesture_TouchOnly(lm) ==
    LET thumbTip == At(lm, THUMB_TIP)
        indexTip == At(lm, INDEX_FINGER_TIP)
        thumbIndexDistanceSq == calculateDistanceSq(thumbTip, indexTip)
    IN  thumbIndexDistanceSq * 400 < Scale * Scale

\* thumbIndexDistance < 0.05, on the squares: 0.05 is 5 grid units.
isCircleGesture(lm) ==
    LET thumbTip == At(lm, THUMB_TIP)
        indexTip == At(lm, INDEX_FINGER_TIP)
        thumbIndexDistanceSq == calculateDistanceSq(thumbTip, indexTip)
    IN  thumbIndexDistanceSq * 400 < Scale * Scale /\ middleExtended(lm)

isRectangleGesture(lm) ==
    LET thumbExtended == At(lm, THUMB_TIP).y < At(lm, THUMB_TIP - 1).y
    IN  thumbExtended /\ ~indexExtended(lm) /\ ~middleExtended(lm) /\ ~ringExtended(lm)

\* The confidences recognizeGesture attaches to each kind.
LineConfidence == 8500
CircleConfidence == 8000
RectangleConfidence == 8000
DrawConfidence == 8000
EraseConfidence == 7000
MenuConfidence == 9000

GestureOf(type, position, confidence) ==
    [type |-> type, position |-> position, confidence |-> confidence]

\* The result of the guard at the head of recognizeGesture.
EmptyGesture == GestureOf("none", [x |-> 0, y |-> 0], 0)

\* The guard with its bound one too low: an array of 20 landmarks passes it.
TooFewLandmarks_OffByOne(lm) == ~lm.given \/ Len(lm.items) < HandSize - 1

\* The guard of recognizeGesture: !landmarks || landmarks.length < 21.
TooFewLandmarks(lm) == ~lm.given \/ Len(lm.items) < HandSize

\* The landmark indices recognizeGesture and its predicates read.
LandmarksRead ==
    {WRIST, THUMB_TIP - 1, THUMB_TIP, INDEX_FINGER_PIP, INDEX_FINGER_TIP,
     MIDDLE_FINGER_PIP, MIDDLE_FINGER_TIP, RING_FINGER_TIP - 2, RING_FINGER_TIP,
     PINKY_TIP - 2, PINKY_TIP}

\* Reading landmarks[i] past the end gives undefined, and reading .x of it throws.
ReadThrows(lm) == \E i \in LandmarksRead : i >= Len(lm.items)

\* recognizeGesture with the circle test moved in front of the line test.
recognizeGesture_CircleFirst(lm) ==
    IF TooFewLandmarks(lm) THEN EmptyGesture
    ELSE IF ReadThrows(lm) THEN Thrown
    ELSE LET indexTip == At(lm, INDEX_FINGER_TIP)
             position == [x |-> Scale - indexTip.x, y |-> indexTip.y]
         IN  IF isCircleGesture(lm) THEN GestureOf("circle", position, CircleConfidence)
             ELSE IF isLineGesture(lm) THEN GestureOf("line", position, LineConfidence)
             ELSE IF isRectangleGesture(lm) THEN GestureOf("rectangle", position, RectangleConfidence)
             ELSE IF isDrawingGesture(lm) THEN GestureOf("draw", position, DrawConfidence)
             ELSE IF isErasingGesture(lm) THEN GestureOf("erase", position, EraseConfidence)
             ELSE IF isMenuGesture(lm) THEN GestureOf("menu", position, MenuConfidence)
             ELSE GestureOf("none", position, 0)

\* recognizeGesture without the flip of the X axis.
recognizeGesture_Unmirrored(lm) ==
    IF TooFewLandmarks(lm) THEN EmptyGesture
    ELSE IF ReadThrows(lm) THEN Thrown
    ELSE LET indexTip == At(lm, INDEX_FINGER_TIP)
             position == [x |-> indexTip.x, y |-> indexTip.y]
         IN  IF isLineGesture(lm) THEN GestureOf("line", position, LineConfidence)
             ELSE IF isCircleGesture(lm) THEN GestureOf("circle", position, CircleConfidence)
             ELSE IF isRectangleGesture(lm) THEN GestureOf("rectangle", position, RectangleConfidence)
             ELSE IF isDrawingGesture(lm) THEN GestureOf("draw", position, DrawConfidence)
             ELSE IF isErasingGesture(lm) THEN GestureOf("erase", position, EraseConfidence)
             ELSE IF isMenuGesture(lm) THEN GestureOf("menu", position, MenuConfidence)
             ELSE GestureOf("none", position, 0)

\* recognizeGesture with the confidence of draw attached to menu.
recognizeGesture_MenuAsDraw(lm) ==
    IF TooFewLandmarks(lm) THEN EmptyGesture
    ELSE IF ReadThrows(lm) THEN Thrown
    ELSE LET indexTip == At(lm, INDEX_FINGER_TIP)
             position == [x |-> Scale - indexTip.x, y |-> indexTip.y]
         IN  IF isLineGesture(lm) THEN GestureOf("line", position, LineConfidence)
             ELSE IF isCircleGesture(lm) THEN GestureOf("circle", position, CircleConfidence)
             ELSE IF isRectangleGesture(lm) THEN GestureOf("rectangle", position, RectangleConfidence)
             ELSE IF isDrawingGesture(lm) THEN GestureOf("draw", position, DrawConfidence)
             ELSE IF isErasingGesture(lm) THEN GestureOf("erase", position, EraseConfidence)
             ELSE IF isMenuGesture(lm) THEN GestureOf("menu", position, DrawConfidence)
             ELSE GestureOf("none", position, 0)

recognizeGesture(lm) ==
    IF TooFewLandmarks(lm) THEN EmptyGesture
    ELSE IF ReadThrows(lm) THEN Thrown
    ELSE LET indexTip == At(lm, INDEX_FINGER_TIP)
             position == [x |-> Scale - indexTip.x, y |-> indexTip.y]
         IN  IF isLineGesture(lm) THEN GestureOf("line", position, LineConfidence)
             ELSE IF isCircleGesture(lm) THEN GestureOf("circle", position, CircleConfidence)
             ELSE IF isRectangleGesture(lm) THEN GestureOf("rectangle", position, RectangleConfidence)
             ELSE IF isDrawingGesture(lm) THEN GestureOf("draw", position, DrawConfidence)
             ELSE IF isErasingGesture(lm) THEN GestureOf("erase", position, EraseConfidence)
             ELSE IF isMenuGesture(lm) THEN GestureOf("menu", position, MenuConfidence)
             ELSE GestureOf("none", position, 0)

-----------------------------------------------------------------------------
(* Landmark inputs *)

\* The longest landmark array the detector is taken to deliver.
MaxHandLen == 22

Pt(x, y) == [x |-> x, y |-> y]

WristPoint == Pt(50, 90)
ThumbJoint == Pt(25, 65)
Filler == Pt(50, 70)

\* The proximal-interphalangeal joint of each finger.
PipPoint(finger) ==
    CASE finger = "index" -> Pt(40, 50)
      [] finger = "middle" -> Pt(50, 48)
      [] finger = "ring" -> Pt(60, 50)
      [] finger = "pinky" -> Pt(70, 56)

TipPoses == {"extended", "curled", "level"}

\* A fingertip: farther from the wrist than the joint, nearer, or exactly as far.
TipPoint(finger, pose) ==
    CASE finger = "index" /\ pose = "extended" -> Pt(38, 20)
      [] finger = "index" /\ pose = "curled" -> Pt(42, 70)
      [] finger = "index" /\ pose = "level" -> Pt(60, 50)
      [] finger = "middle" /\ pose = "extended" -> Pt(50, 15)
      [] finger = "middle" /\ pose = "curled" -> Pt(50, 68)
      [] finger = "middle" /\ pose = "level" -> Pt(8, 90)
      [] finger = "ring" /\ pose = "extended" -> Pt(62, 22)
      [] finger = "ring" /\ pose = "curled" -> Pt(58, 70)
      [] finger = "ring" /\ pose = "level" -> Pt(40, 50)
      [] finger = "pinky" /\ pose = "extended" -> Pt(75, 30)
      [] finger = "pinky" /\ pose = "curled" -> Pt(66, 72)
      [] finger = "pinky" /\ pose = "level" -> Pt(30, 56)

\* The thumb tip: above or below its joint, or touching the index fingertip.
ThumbPoses == {"up", "down", "onExtendedIndex", "onCurledIndex"}

ThumbPoint(pose) ==
    CASE pose = "up" -> Pt(20, 55)
      [] pose = "down" -> Pt(28, 75)
      [] pose = "onExtendedIndex" -> Pt(41, 23)
      [] pose = "onCurledIndex" -> Pt(44, 73)

Depths == {0, -7}

\* A landmark array of n entries for the given finger poses, all at depth z.
HandOf(n, i, m, r, p, t, z) ==
    [k \in 1..n |->
        LET xy == CASE k - 1 = WRIST -> WristPoint
                    [] k - 1 = THUMB_TIP - 1 -> ThumbJoint
                    [] k - 1 = THUMB_TIP -> ThumbPoint(t)
                    [] k - 1 = INDEX_FINGER_PIP -> PipPoint("index")
                    [] k - 1 = INDEX_FINGER_TIP -> TipPoint("index", i)
                    [] k - 1 = MIDDLE_FINGER_PIP -> PipPoint("middle")
                    [] k - 1 = MIDDLE_FINGER_TIP -> TipPoint("middle", m)
                    [] k - 1 = RING_FINGER_TIP - 2 -> PipPoint("ring")
                    [] k - 1 = RING_FINGER_TIP -> TipPoint("ring", r)
                    [] k - 1 = PINKY_TIP - 2 -> PipPoint("pinky")
                    [] k - 1 = PINKY_TIP -> TipPoint("pinky", p)
                    [] OTHER -> Filler
        IN  [x |-> xy.x, y |-> xy.y, z |-> z]]

HandInputs ==
    {Absent} \cup
    {Given(HandOf(n, i, m, r, p, t, z)) :
        n \in 0..MaxHandLen, i \in TipPoses, m \in TipPoses, r \in TipPoses,
        p \in TipPoses, t \in ThumbPoses, z \in Depths}

-----------------------------------------------------------------------------
(* Construction *)

InitClassifier == gesture = NoResult

InitStabilizer ==
    /\ gestureHistory = <<>>
    /\ stabilized = NoResult
    /\ observed = <<>>
    /\ stale = FALSE
    /\ twinHistory = <<>>
    /\ twinStabilized = NoResult
    /\ twinObserved = <<>>
    /\ twinStale = FALSE

InitRecognizer ==
    /\ trackPoints = <<>>
    /\ now = 0
    /\ shapeResult = NoResult
    /\ added = <<>>

\* No caller holds an array of the recognizer yet, and no call was logged.
NoSnapshot == [taken |-> FALSE, items |-> <<>>, shared |-> FALSE, edits |-> 0]

\* No stroke is planned.
NoStroke == [start |-> 0, stride |-> 0]

InitCaller ==
    /\ snapshot = NoSnapshot
    /\ fitLog = <<>>
    /\ stroke = NoStroke

\* results is null until the detector delivers a frame.
NoResults == [delivered |-> FALSE, multiHandLandmarks |-> <<>>]

\* useHandTracking as mounted: useState(false), useState(null), and no call of
\* initializeHandTracking pending.  phase is where the pending call stands,
\* armed whether its 30 s timeout is set, elapsed the seconds since it was set,
\* expired whether the timeout callback has run, loaded whether the detector
\* accepts setOptions.
NoInitialization ==
    [isLoading |-> FALSE, error |-> "null", phase |-> "idle", armed |-> FALSE,
     elapsed |-> 0, expired |-> FALSE, loaded |-> FALSE]

\* App and Canvas as mounted: useState(false), vectorMode: false, useState([]).
InitHost ==
    /\ results = NoResults
    /\ currentGesture = EmptyGesture
    /\ isTracking = FALSE
    /\ vectorMode = FALSE
    /\ vectorShapes = <<>>
    /\ isDrawingVector = FALSE
    /\ previewShape = "null"
    /\ canvasShapes = <<>>
    /\ timers = 0
    /\ tracker = NoInitialization
    /\ handler = [name |-> "none", at |-> 0]

-----------------------------------------------------------------------------
(* The classifier on one input *)

Classify ==
    /\ gesture = NoResult
    /\ gesture' = recognizeGesture(landmarks)
    /\ UNCHANGED <<landmarks, stabilizerVars, twinVars, recognizerVars, callerVars, hostVars>>

InitClassify ==
    /\ landmarks \in HandInputs
    /\ InitClassifier
    /\ InitStabilizer
    /\ InitRecognizer
    /\ InitCaller
    /\ InitHost

SpecClassify == InitClassify /\ [][Classify]_vars

-----------------------------------------------------------------------------
(* GestureStabilizer: src/src/utils/gestureRecognition.ts 345-382 *)

historySize == 5

\* confidenceThreshold, 0.6
confidenceThreshold == 6000

\* The push followed by a pop in place of the shift: the newest result is dropped.
historyAfterPush_DropsNewest(history, g) ==
    LET pushed == Append(history, g)
    IN  IF Len(pushed) > historySize THEN SubSeq(pushed, 1, historySize) ELSE pushed

\* this.gestureHistory after the push and the shift of addGesture.
historyAfterPush(history, g) ==
    LET pushed == Append(history, g)
    IN  IF Len(pushed) > historySize THEN Tail(pushed) ELSE pushed

\* gestureCount[type]: how many results of the window have this type.
gestureCount(history, type) ==
    Cardinality({i \in DOMAIN history : history[i].type = type})

\* The keys of gestureCount in insertion order: each type at its first occurrence.
firstOccurrence(history, type) ==
    CHOOSE i \in DOMAIN history :
        /\ history[i].type = type
        /\ \A j \in 1..(i - 1) : history[j].type # type

\* Object.entries(gestureCount).sort(([,a], [,b]) => b - a)[0]: the sort is stable,
\* so among the types with the largest count the one inserted first comes first.
mostFrequent(history) ==
    LET types == {history[i].type : i \in DOMAIN history}
        best == CHOOSE t \in types :
                    \A u \in types \ {t} :
                        \/ gestureCount(history, t) > gestureCount(history, u)
                        \/ /\ gestureCount(history, t) = gestureCount(history, u)
                           /\ firstOccurrence(history, t) < firstOccurrence(history, u)
    IN  <<best, gestureCount(history, best)>>

\* Half the window, rounded down, in place of the rounded-up 0.6 of it.
majorityCount_Half == historySize \div 2

\* Math.ceil(this.historySize * this.confidenceThreshold)
majorityCount ==
    (historySize * confidenceThreshold + Unit - 1) \div Unit

\* The confidence divided by the length of the window in place of historySize.
consensus_DividesByLength(history, g) ==
    IF history # <<>> /\ mostFrequent(history)[2] >= majorityCount
    THEN LET recentGesture == history[Len(history)]
         IN  GestureOf(mostFrequent(history)[1], recentGesture.position,
                       (mostFrequent(history)[2] * Unit) \div Len(history))
    ELSE GestureOf("none", g.position, 0)

\* The confidence of the newest raw result passed on in place of the tally.
consensus_RawConfidence(history, g) ==
    IF history # <<>> /\ mostFrequent(history)[2] >= majorityCount
    THEN LET recentGesture == history[Len(history)]
         IN  GestureOf(mostFrequent(history)[1], recentGesture.position,
                       recentGesture.confidence)
    ELSE GestureOf("none", g.position, 0)

\* The position taken from the oldest result of the window in place of the newest.
consensus_OldestPosition(history, g) ==
    IF history # <<>> /\ mostFrequent(history)[2] >= majorityCount
    THEN LET recentGesture == history[1]
         IN  GestureOf(mostFrequent(history)[1], recentGesture.position,
                       (mostFrequent(history)[2] * Unit) \div historySize)
    ELSE GestureOf("none", g.position, 0)

\* What addGesture(gesture) returns, history being the window after the push.
consensus(history, g) ==
    IF history # <<>> /\ mostFrequent(history)[2] >= majorityCount
    THEN LET recentGesture == history[Len(history)]
         IN  GestureOf(mostFrequent(history)[1], recentGesture.position,
                       (mostFrequent(history)[2] * Unit) \div historySize)
    ELSE GestureOf("none", g.position, 0)

\* The raw results fed to a stabilizer: five kinds, and two positions of one kind.
RawInputs ==
    {GestureOf("draw", Pt(62, 20), DrawConfidence),
     GestureOf("draw", Pt(30, 40), DrawConfidence),
     GestureOf("erase", Pt(58, 70), EraseConfidence),
     GestureOf("line", Pt(62, 21), LineConfidence),
     GestureOf("menu", Pt(61, 20), MenuConfidence),
     EmptyGesture}

\* How many results a stabilizer is fed between two resets.
MaxObserved == 6

AddGesture(g) ==
    /\ Len(observed) < MaxObserved
    /\ gestureHistory' = historyAfterPush(gestureHistory, g)
    /\ stabilized' = consensus(gestureHistory', g)
    /\ observed' = Append(observed, g)
    /\ UNCHANGED <<stale, classifierVars, twinVars, recognizerVars, callerVars, hostVars>>

\* A reset that leaves the window as it is.
historyAfterReset_Keeps(history) == history

\* this.gestureHistory after reset().
historyAfterReset(history) == <<>>

Reset ==
    /\ gestureHistory' = historyAfterReset(gestureHistory)
    /\ stabilized' = NoResult
    /\ observed' = <<>>
    /\ stale' = (gestureHistory # <<>>)
    /\ UNCHANGED <<classifierVars, twinVars, recognizerVars, callerVars, hostVars>>

InitStab ==
    /\ landmarks = Absent
    /\ InitClassifier
    /\ InitStabilizer
    /\ InitRecognizer
    /\ InitCaller
    /\ InitHost

NextStab == (\E g \in RawInputs : AddGesture(g)) \/ Reset

SpecStab == InitStab /\ [][NextStab]_vars

-----------------------------------------------------------------------------
(* Two stabilizers side by side: the same class, separate windows *)

TwinAddGesture(g) ==
    /\ Len(twinObserved) < MaxObserved
    /\ twinHistory' = historyAfterPush(twinHistory, g)
    /\ twinStabilized' = consensus(twinHistory', g)
    /\ twinObserved' = Append(twinObserved, g)
    /\ UNCHANGED <<twinStale, classifierVars, stabilizerVars, recognizerVars, callerVars, hostVars>>

TwinReset ==
    /\ twinHistory' = historyAfterReset(twinHistory)
    /\ twinStabilized' = NoResult
    /\ twinObserved' = <<>>
    /\ twinStale' = (twinHistory # <<>>)
    /\ UNCHANGED <<classifierVars, stabilizerVars, recognizerVars, callerVars, hostVars>>

\* The raw results fed to the pair.
TwinInputs ==
    {GestureOf("draw", Pt(62, 20), DrawConfidence),
     GestureOf("erase", Pt(58, 70), EraseConfidence)}

NextTwin ==
    \/ \E g \in TwinInputs : AddGesture(g)
    \/ Reset
    \/ \E g \in TwinInputs : TwinAddGesture(g)
    \/ TwinReset

SpecTwin == InitStab /\ [][NextTwin]_vars

\* The raw results the first stabilizer of a pair is fed when the second gets
\* the same kinds and positions: as recognizeGesture returns them.
BlindInputs ==
    {GestureOf("draw", Pt(62, 20), DrawConfidence),
     GestureOf("draw", Pt(30, 40), DrawConfidence),
     GestureOf("erase", Pt(58, 70), EraseConfidence)}

\* A raw confidence recognizeGesture attaches to no kind.
OtherConfidence == 100

\* The raw results of the kind and position of g.
Recast(g) == {g, [g EXCEPT !.confidence = OtherConfidence]}

\* The first stabilizer is fed a result, then the second is fed a result of the
\* same kind at the same position, with the same or another confidence.
NextBlind ==
    \/ /\ Len(observed) = Len(twinObserved)
       /\ \E g \in BlindInputs : AddGesture(g)
    \/ /\ Len(twinObserved) < Len(observed)
       /\ \E h \in Recast(observed[Len(twinObserved) + 1]) : TwinAddGesture(h)

SpecBlind == InitStab /\ [][NextBlind]_vars

-----------------------------------------------------------------------------
(* ShapeRecognizer: src/src/utils/gestureRecognition.ts 148-343 *)

maxTrackPoints == 50
minPointsForRecognition == 10

\* The confidence a candidate must exceed: 0.7 for a line, 0.6 for the others.
lineThreshold == 7000
circleThreshold == 6000
rectangleThreshold == 6000

\* A TrackPoint: grid coordinates and the time of capture.
TrackPointOf(point, timestamp) ==
    [x |-> point.x, y |-> point.y, timestamp |-> timestamp]

\* The push followed by a pop in place of the shift: the newest point is dropped.
trackPointsAfterPush_DropsNewest(points, point, timestamp) ==
    LET pushed == Append(points, TrackPointOf(point, timestamp))
    IN  IF Len(pushed) > maxTrackPoints THEN SubSeq(pushed, 1, maxTrackPoints) ELSE pushed

\* this.trackPoints after the push and the shift of addPoint.
trackPointsAfterPush(points, point, timestamp) ==
    LET pushed == Append(points, TrackPointOf(point, timestamp))
    IN  IF Len(pushed) > maxTrackPoints THEN Tail(pushed) ELSE pushed

RECURSIVE SeqSum(_)
SeqSum(s) == IF s = <<>> THEN 0 ELSE Head(s) + SeqSum(Tail(s))

\* Math.sqrt(dx * dx + dy * dy) between two grid points, in 1/Unit.
Distance(p, q) ==
    LET dx == p.x - q.x
        dy == p.y - q.y
    IN  IntSqrt((dx * dx + dy * dy) * Unit)

\* pointToLineDistance without the projection: the distance to lineStart.
pointToLineDistance_ToStart(point, lineStart, lineEnd) ==
    Distance(point, lineStart)

\* The distance of point to the segment lineStart-lineEnd, in 1/Unit.  param < 0 is
\* dot < 0 and param > 1 is dot > lenSq; between the two the distance to the foot
\* of the perpendicular is |A * D - B * C| / sqrt(lenSq).
pointToLineDistance(point, lineStart, lineEnd) ==
    LET A == point.x - lineStart.x
        B == point.y - lineStart.y
        C == lineEnd.x - lineStart.x
        D == lineEnd.y - lineStart.y
        dot == A * C + B * D
        lenSq == C * C + D * D
    IN  IF lenSq = 0 THEN IntSqrt((A * A + B * B) * Unit)
        ELSE IF dot < 0 THEN Distance(point, lineStart)
        ELSE IF dot > lenSq THEN Distance(point, lineEnd)
        ELSE (Abs(A * D - B * C) * Unit) \div IntSqrt(lenSq * Unit)

\* detectLine that accepts a segment of length 0.1.
detectLine_AcceptsTenth(points) ==
    LET n == Len(points)
        start == points[1]
        end == points[n]
        lineLength == Distance(end, start)
        totalDeviation ==
            SeqSum([i \in 1..(n - 2) |-> pointToLineDistance(points[i + 1], start, end)])
        avgDeviation == totalDeviation \div (n - 2)
        confidence == Max(0, Unit - avgDeviation * 10)
    IN  [shape |-> "line",
         confidence |-> IF lineLength * 10 >= Unit THEN confidence ELSE 0,
         points |-> [start |-> start, end |-> end]]

detectLine(points) ==
    LET n == Len(points)
        start == points[1]
        end == points[n]
        lineLength == Distance(end, start)
        totalDeviation ==
            SeqSum([i \in 1..(n - 2) |-> pointToLineDistance(points[i + 1], start, end)])
        avgDeviation == totalDeviation \div (n - 2)
        confidence == Max(0, Unit - avgDeviation * 10)
    IN  [shape |-> "line",
         confidence |-> IF lineLength * 10 > Unit THEN confidence ELSE 0,
         points |-> [start |-> start, end |-> end]]

\* detectCircle without the guard on the average radius.
detectCircle_AnyRadius(points, t) ==
    LET n == Len(points)
        centerX == (SeqSum([i \in 1..n |-> points[i].x]) * (Unit \div Scale)) \div n
        centerY == (SeqSum([i \in 1..n |-> points[i].y]) * (Unit \div Scale)) \div n
        radius == [i \in 1..n |->
                      LET dx == points[i].x * (Unit \div Scale) - centerX
                          dy == points[i].y * (Unit \div Scale) - centerY
                      IN  IntSqrt(dx * dx + dy * dy)]
        totalRadius == SeqSum(radius)
        avgRadius == totalRadius \div n
        radiusDeviation == SeqSum([i \in 1..n |-> Abs(radius[i] - avgRadius)])
        avgDeviation == radiusDeviation \div n
        confidence == Max(0, Unit - avgDeviation * 15)
    IN  [shape |-> "circle",
         confidence |-> confidence,
         points |-> [center |-> [x |-> centerX, y |-> centerY, timestamp |-> t],
                     radius |-> avgRadius]]

\* detectCircle with the first point taken for the centre.
detectCircle_CentreAtStart(points, t) ==
    LET n == Len(points)
        centerX == points[1].x * (Unit \div Scale)
        centerY == points[1].y * (Unit \div Scale)
        radius == [i \in 1..n |->
                      LET dx == points[i].x * (Unit \div Scale) - centerX
                          dy == points[i].y * (Unit \div Scale) - centerY
                      IN  IntSqrt(dx * dx + dy * dy)]
        totalRadius == SeqSum(radius)
        avgRadius == totalRadius \div n
        radiusDeviation == SeqSum([i \in 1..n |-> Abs(radius[i] - avgRadius)])
        avgDeviation == radiusDeviation \div n
        confidence == Max(0, Unit - avgDeviation * 15)
    IN  [shape |-> "circle",
         confidence |-> IF avgRadius * 20 > Unit THEN confidence ELSE 0,
         points |-> [center |-> [x |-> centerX, y |-> centerY, timestamp |-> t],
                     radius |-> avgRadius]]

\* The centre and the radius of the payload are in 1/Unit; t is Date.now().
detectCircle(points, t) ==
    LET n == Len(points)
        centerX == (SeqSum([i \in 1..n |-> points[i].x]) * (Unit \div Scale)) \div n
        centerY == (SeqSum([i \in 1..n |-> points[i].y]) * (Unit \div Scale)) \div n
        radius == [i \in 1..n |->
                      LET dx == points[i].x * (Unit \div Scale) - centerX
                          dy == points[i].y * (Unit \div Scale) - centerY
                      IN  IntSqrt(dx * dx + dy * dy)]
        totalRadius == SeqSum(radius)
        avgRadius == totalRadius \div n
        radiusDeviation == SeqSum([i \in 1..n |-> Abs(radius[i] - avgRadius)])
        avgDeviation == radiusDeviation \div n
        confidence == Max(0, Unit - avgDeviation * 15)
    IN  [shape |-> "circle",
         confidence |-> IF avgRadius * 20 > Unit THEN confidence ELSE 0,
         points |-> [center |-> [x |-> centerX, y |-> centerY, timestamp |-> t],
                     radius |-> avgRadius]]

RECURSIVE SeqMin(_)
SeqMin(s) == IF Len(s) = 1 THEN s[1] ELSE Min(Head(s), SeqMin(Tail(s)))

RECURSIVE SeqMax(_)
SeqMax(s) == IF Len(s) = 1 THEN s[1] ELSE Max(Head(s), SeqMax(Tail(s)))

\* The corners of the payload are in grid units; t is Date.now().  The ratio
\* min / max is not computed where the size test fails: there the code's quotient
\* may be NaN (0 / 0) and the conditional discards it.
detectRectangle(points, t) ==
    LET n == Len(points)
        minX == SeqMin([i \in 1..n |-> points[i].x])
        minY == SeqMin([i \in 1..n |-> points[i].y])
        maxX == SeqMax([i \in 1..n |-> points[i].x])
        maxY == SeqMax([i \in 1..n |-> points[i].y])
        width == maxX - minX
        height == maxY - minY
        nearEdge(point) ==
            \/ Abs(point.x - minX) * 20 < Scale
            \/ Abs(point.x - maxX) * 20 < Scale
            \/ Abs(point.y - minY) * 20 < Scale
            \/ Abs(point.y - maxY) * 20 < Scale
        edgePoints == Cardinality({i \in 1..n : nearEdge(points[i])})
        edgeRatio == (edgePoints * Unit) \div n
        aspectRatio == (Min(width, height) * Unit) \div Max(width, height)
        confidence == (edgeRatio * aspectRatio) \div Unit
    IN  [shape |-> "rectangle",
         confidence |-> IF width * 10 > Scale /\ height * 10 > Scale THEN confidence ELSE 0,
         points |-> [topLeft |-> [x |-> minX, y |-> minY, timestamp |-> t],
                     bottomRight |-> [x |-> maxX, y |-> maxY, timestamp |-> t]]]

\* { shape: 'none', confidence: 0 }: no points.
NoShape == [shape |-> "none", confidence |-> 0]

\* The guard with its bound one too low: nine points pass it.
TooFewPoints_OffByOne(points) == Len(points) < minPointsForRecognition - 1

\* The guard of recognizeShape.
TooFewPoints(points) == Len(points) < minPointsForRecognition

\* recognizeShape with the circle candidate tried before the line candidate.
recognizeShape_CircleFirst(points, t) ==
    IF TooFewPoints(points) THEN NoShape
    ELSE IF detectCircle(points, t).confidence > circleThreshold THEN detectCircle(points, t)
    ELSE IF detectLine(points).confidence > lineThreshold THEN detectLine(points)
    ELSE IF detectRectangle(points, t).confidence > rectangleThreshold
         THEN detectRectangle(points, t)
    ELSE NoShape

\* recognizeShape giving up on a buffer whose newest point is older than one
\* frame.
recognizeShape_Expires(points, t) ==
    IF TooFewPoints(points) THEN NoShape
    ELSE IF t - points[Len(points)].timestamp > 1 THEN NoShape
    ELSE IF detectLine(points).confidence > lineThreshold THEN detectLine(points)
    ELSE IF detectCircle(points, t).confidence > circleThreshold THEN detectCircle(points, t)
    ELSE IF detectRectangle(points, t).confidence > rectangleThreshold
         THEN detectRectangle(points, t)
    ELSE NoShape

recognizeShape(points, t) ==
    IF TooFewPoints(points) THEN NoShape
    ELSE IF detectLine(points).confidence > lineThreshold THEN detectLine(points)
    ELSE IF detectCircle(points, t).confidence > circleThreshold THEN detectCircle(points, t)
    ELSE IF detectRectangle(points, t).confidence > rectangleThreshold
         THEN detectRectangle(points, t)
    ELSE NoShape

\* addPoint(point); the clock moves on by one tick with every call.
AddPoint(point) ==
    /\ trackPoints' = trackPointsAfterPush(trackPoints, point, now)
    /\ added' = Append(added, TrackPointOf(point, now))
    /\ now' = now + 1
    /\ shapeResult' = NoResult
    /\ UNCHANGED <<classifierVars, stabilizerVars, twinVars, callerVars, hostVars>>

ClearTrack ==
    /\ trackPoints' = <<>>
    /\ added' = <<>>
    /\ shapeResult' = NoResult
    /\ UNCHANGED <<now, classifierVars, stabilizerVars, twinVars, callerVars, hostVars>>

RecognizeShape ==
    /\ shapeResult' = recognizeShape(trackPoints, now)
    /\ UNCHANGED <<trackPoints, added, now, classifierVars, stabilizerVars, twinVars,
                   callerVars, hostVars>>

\* getTrackPoints returning this.trackPoints itself in place of a copy of it.
getTrackPoints_SameArray(points) ==
    [taken |-> TRUE, items |-> points, shared |-> TRUE, edits |-> 0]

\* getTrackPoints(): [...this.trackPoints], a new array of the points in order.
\* The copy is shallow: its elements are the TrackPoint objects of the buffer.
getTrackPoints(points) ==
    [taken |-> TRUE, items |-> points, shared |-> FALSE, edits |-> 0]

GetTrackPoints ==
    /\ snapshot' = getTrackPoints(trackPoints)
    /\ shapeResult' = NoResult
    /\ UNCHANGED <<trackPoints, added, now, fitLog, stroke, classifierVars, stabilizerVars,
                   twinVars, hostVars>>

\* How many times a caller changes the array it was given.
MaxEdits == 2

\* The caller pushes a point onto the array it holds.  An array that is
\* this.trackPoints itself takes the buffer with it.
CallerPush(point) ==
    /\ snapshot.taken
    /\ snapshot.edits < MaxEdits
    /\ snapshot' = [snapshot EXCEPT !.items = Append(@, TrackPointOf(point, now)),
                                    !.edits = @ + 1]
    /\ trackPoints' = IF snapshot.shared THEN snapshot'.items ELSE trackPoints
    /\ UNCHANGED <<added, now, shapeResult, fitLog, stroke, classifierVars, stabilizerVars,
                   twinVars, hostVars>>

\* The caller shifts the first point off the array it holds.
CallerShift ==
    /\ snapshot.taken
    /\ snapshot.edits < MaxEdits
    /\ snapshot.items # <<>>
    /\ snapshot' = [snapshot EXCEPT !.items = Tail(@), !.edits = @ + 1]
    /\ trackPoints' = IF snapshot.shared THEN snapshot'.items ELSE trackPoints
    /\ UNCHANGED <<added, now, shapeResult, fitLog, stroke, classifierVars, stabilizerVars,
                   twinVars, hostVars>>

InitTrack ==
    /\ landmarks = Absent
    /\ InitClassifier
    /\ InitStabilizer
    /\ InitRecognizer
    /\ InitCaller
    /\ InitHost

\* How many points a stroke of the buffer specification adds in all.
MaxTrackAdds == 60

\* The cursor position of the t-th frame of a stroke that never repeats a point.
CursorPath(t) == Pt((7 * t) % (Scale + 1), (3 * t) % (Scale + 1))

NextTrack ==
    \/ now < MaxTrackAdds /\ AddPoint(CursorPath(now))
    \/ ClearTrack

SpecTrack == InitTrack /\ [][NextTrack]_vars

\* How many points the snapshot specification adds in all.
MaxSnapshotAdds == 4

NextSnapshot ==
    \/ now < MaxSnapshotAdds /\ AddPoint(CursorPath(now))
    \/ ClearTrack
    \/ GetTrackPoints
    \/ CallerPush(Pt(0, 0))
    \/ CallerShift

SpecSnapshot == InitTrack /\ [][NextSnapshot]_vars

\* The cursor positions of the fitting specification: the corners of a right
\* triangle, in the order the cursor goes round them.
FitCorners == <<Pt(10, 10), Pt(50, 10), Pt(50, 50)>>

\* Where the cursor may be in the next frame: anywhere at the start of a stroke,
\* then on the corner it is on or on the next one.
FitSteps(points) ==
    IF points = <<>> THEN {FitCorners[i] : i \in DOMAIN FitCorners}
    ELSE LET last == points[Len(points)]
             at == CHOOSE i \in DOMAIN FitCorners :
                       FitCorners[i].x = last.x /\ FitCorners[i].y = last.y
         IN  {FitCorners[at], FitCorners[(at % Len(FitCorners)) + 1]}

\* How many points the fitting specification adds.
MaxFitAdds == 12

NextFit ==
    \/ \E p \in FitSteps(trackPoints) : Len(added) < MaxFitAdds /\ AddPoint(p)
    \/ RecognizeShape

SpecFit == InitTrack /\ [][NextFit]_vars

\* The cursor positions of the stroke specification, from left to right: points
\* of the segment from (0.1,0.1) to (0.8,0.1), and one point beside it.
StrokeStops == <<Pt(10, 10), Pt(15, 11), Pt(20, 10), Pt(21, 10), Pt(80, 10)>>

StopOf(p) == CHOOSE i \in DOMAIN StrokeStops : StrokeStops[i] = Pt(p.x, p.y)

\* Where the cursor may be in the next frame of a stroke that never turns back:
\* anywhere at its start, then on the stop it is on or on one further along.
StrokeSteps(points) ==
    IF points = <<>> THEN {StrokeStops[i] : i \in DOMAIN StrokeStops}
    ELSE LET first == StopOf(points[1])
             last == StopOf(points[Len(points)])
         IN  {StrokeStops[i] : i \in {j \in DOMAIN StrokeStops :
                                        \/ first <= last /\ j >= last
                                        \/ first >= last /\ j <= last}}

\* How many points the stroke specification adds.
MaxStrokeAdds == 12

NextStroke ==
    \/ \E p \in StrokeSteps(trackPoints) : Len(added) < MaxStrokeAdds /\ AddPoint(p)
    \/ RecognizeShape

SpecStroke == InitTrack /\ [][NextStroke]_vars

\* The corners of the box from (0.2,0.2) to (0.6,0.5), clockwise on the screen.
BoxCorners == <<Pt(20, 20), Pt(60, 20), Pt(60, 50), Pt(20, 50)>>

BoxWidth == BoxCorners[2].x - BoxCorners[1].x
BoxHeight == BoxCorners[3].y - BoxCorners[2].y
BoxPerimeter == 2 * (BoxWidth + BoxHeight)

\* The point of the perimeter at arc length s from the first corner.
PerimeterAt(s) ==
    IF s < BoxWidth THEN Pt(BoxCorners[1].x + s, BoxCorners[1].y)
    ELSE IF s < BoxWidth + BoxHeight
    THEN Pt(BoxCorners[2].x, BoxCorners[2].y + (s - BoxWidth))
    ELSE IF s < 2 * BoxWidth + BoxHeight
    THEN Pt(BoxCorners[3].x - (s - BoxWidth - BoxHeight), BoxCorners[3].y)
    ELSE Pt(BoxCorners[4].x, BoxCorners[4].y - (s - 2 * BoxWidth - BoxHeight))

ArcOf(p) == CHOOSE s \in 0..(BoxPerimeter - 1) : PerimeterAt(s) = Pt(p.x, p.y)

\* The arc lengths between two samples: 10, 14, 20, 28 and 35 samples a round.
BoxArcs == {14, 10, 7, 5, 4}

\* Where the first sample of a round may lie.
BoxStarts == {s \in 0..(BoxPerimeter - 1) : s % 7 = 0}

\* The arc from the first sample to the second, which every later pair repeats.
BoxStride(points) ==
    (ArcOf(points[2]) - ArcOf(points[1]) + BoxPerimeter) % BoxPerimeter

\* The samples go once round the box.
BoxRound(points) ==
    /\ Len(points) >= 2
    /\ Len(points) * Min(BoxStride(points), BoxPerimeter - BoxStride(points))
           = BoxPerimeter

\* Where the cursor may be in the next frame of a stroke round the box: at equal
\* arcs, in either sense, until the round is complete.
BoxSteps(points) ==
    IF points = <<>> THEN {PerimeterAt(s) : s \in BoxStarts}
    ELSE IF Len(points) = 1
    THEN {PerimeterAt((ArcOf(points[1]) + a) % BoxPerimeter) :
              a \in BoxArcs \cup {BoxPerimeter - b : b \in BoxArcs}}
    ELSE IF BoxRound(points) THEN {}
    ELSE {PerimeterAt((ArcOf(points[Len(points)]) + BoxStride(points)) % BoxPerimeter)}

NextBox ==
    \/ \E p \in BoxSteps(trackPoints) : AddPoint(p)
    \/ RecognizeShape

SpecBox == InitTrack /\ [][NextBox]_vars

\* 20 * sin of 0, 1, ..., 90 degrees, rounded to the grid: the sine of a circle
\* of radius 0.2.
SineTable == <<
       0,  0,  1,  1,  1,  2,  2,  2,  3,  3,  3,  4,  4,  4,  5,
       5,  6,  6,  6,  7,  7,  7,  7,  8,  8,  8,  9,  9,  9, 10,
      10, 10, 11, 11, 11, 11, 12, 12, 12, 13, 13, 13, 13, 14, 14,
      14, 14, 15, 15, 15, 15, 16, 16, 16, 16, 16, 17, 17, 17, 17,
      17, 17, 18, 18, 18, 18, 18, 18, 19, 19, 19, 19, 19, 19, 19,
      19, 19, 19, 20, 20, 20, 20, 20, 20, 20, 20, 20, 20, 20, 20,
      20>>

\* 20 * sin(a) and 20 * cos(a) on the grid, for a in degrees.
GridSin(a) ==
    LET d == a % 360
    IN  IF d <= 90 THEN SineTable[d + 1]
        ELSE IF d <= 180 THEN SineTable[180 - d + 1]
        ELSE IF d <= 270 THEN -SineTable[d - 180 + 1]
        ELSE -SineTable[360 - d + 1]

GridCos(a) == GridSin(a + 90)

\* The grid point nearest the point at angle a of the circle of radius 0.2
\* about (0.5,0.5).
CirclePoint(a) == Pt(50 + GridCos(a), 50 + GridSin(a))

\* The angles between two samples: 10, 12, 15, 18, 20, 24, 30, 36, 40 and 45
\* samples a round, in either sense.
CircleStrides ==
    LET arcs == {36, 30, 24, 20, 18, 15, 12, 10, 9, 8}
    IN  arcs \cup {360 - a : a \in arcs}

\* The angles the first sample may lie at.
CircleStarts == {a \in 0..359 : a % 24 = 0}

\* The samples go once round the circle.
CircleRound(points) ==
    /\ stroke.stride > 0
    /\ Len(points) * Min(stroke.stride, 360 - stroke.stride) = 360

InitCircle ==
    /\ landmarks = Absent
    /\ InitClassifier
    /\ InitStabilizer
    /\ InitRecognizer
    /\ snapshot = NoSnapshot
    /\ fitLog = <<>>
    /\ stroke \in [start : CircleStarts, stride : CircleStrides]
    /\ InitHost

NextCircle ==
    \/ /\ ~CircleRound(trackPoints)
       /\ AddPoint(CirclePoint(stroke.start + Len(added) * stroke.stride))
    \/ RecognizeShape

SpecCircle == InitCircle /\ [][NextCircle]_vars

\* The entries of a buffer without their timestamps.
Coordinates(points) == [i \in 1..Len(points) |-> Pt(points[i].x, points[i].y)]

\* The last two entries of a log.
LastTwo(log) == IF Len(log) > 2 THEN SubSeq(log, Len(log) - 1, Len(log)) ELSE log

\* recognizeShape called by a caller that keeps the buffer it was called on,
\* the time of the call and what it returned.
RecognizeShapeLogged ==
    /\ shapeResult' = recognizeShape(trackPoints, now)
    /\ fitLog' = LastTwo(Append(fitLog, [points |-> trackPoints, at |-> now,
                                         result |-> shapeResult']))
    /\ UNCHANGED <<trackPoints, added, now, snapshot, stroke, classifierVars,
                   stabilizerVars, twinVars, hostVars>>

\* The clock of the replay specification stops here.
MaxReplayClock == 22

\* The strokes of the replay specification, ten points each: along a segment,
\* once round the box, once round the circle.
ReplayStrokes ==
    { [i \in 1..10 |-> Pt(10 + 7 * (i - 1), 10)],
      [i \in 1..10 |-> PerimeterAt(14 * (i - 1))],
      [i \in 1..10 |-> CirclePoint(36 * (i - 1))] }

\* Where the cursor may be in the next frame: at the start of any stroke when
\* the buffer is empty, else at the next point of the stroke being drawn.
ReplaySteps(points) ==
    LET n == Len(points)
    IN  { st[n + 1] : st \in { r \in ReplayStrokes :
              n < Len(r) /\ SubSeq(r, 1, n) = Coordinates(points) } }

\* The stroke being drawn has come to its end.
StrokeComplete(points) == points # <<>> /\ ReplaySteps(points) = {}

\* Date.now() moves on with no frame arriving, after a stroke.
Tick ==
    /\ now < MaxReplayClock
    /\ StrokeComplete(trackPoints)
    /\ now' = now + 1
    /\ UNCHANGED <<trackPoints, added, shapeResult, classifierVars, stabilizerVars,
                   twinVars, callerVars, hostVars>>

NextReplay ==
    \/ /\ now < MaxReplayClock
       /\ \E p \in ReplaySteps(trackPoints) : AddPoint(p)
    \/ /\ StrokeComplete(trackPoints)
       /\ ClearTrack
    \/ Tick
    \/ RecognizeShapeLogged

SpecReplay == InitTrack /\ [][NextReplay]_vars

-----------------------------------------------------------------------------
(* App: src/src/utils/gestureRecognition.ts 395-456                        *)
(* Canvas: src/src/components/ThemeToggle.tsx 34-525                       *)

\* The results onResults stores: multiHandLandmarks || [].
ResultsOf(hands) == [delivered |-> TRUE, multiHandLandmarks |-> hands]

\* What the Canvas effect and the timer callback read and write.
CanvasState ==
    [trackPoints |-> trackPoints, added |-> added, shapeResult |-> shapeResult,
     isDrawingVector |-> isDrawingVector, previewShape |-> previewShape,
     canvasShapes |-> canvasShapes, vectorShapes |-> vectorShapes,
     timers |-> timers]

CanvasBecomes(c) ==
    /\ trackPoints' = c.trackPoints
    /\ added' = c.added
    /\ shapeResult' = c.shapeResult
    /\ isDrawingVector' = c.isDrawingVector
    /\ previewShape' = c.previewShape
    /\ canvasShapes' = c.canvasShapes
    /\ vectorShapes' = c.vectorShapes
    /\ timers' = c.timers

VectorKinds == {"line", "rectangle", "circle"}

\* The confidence the host asks of a gesture to move the cursor (0.3), to draw
\* or erase (0.6), and of a fitted shape to accept it (0.7).
cursorThreshold == 3000
strokeThreshold == 6000
acceptThreshold == 7000

\* The props App hands to Canvas for the published gesture g.
isDrawing(g) == g.type = "draw" /\ g.confidence > strokeThreshold

isErasing(g) == g.type = "erase" /\ g.confidence > strokeThreshold

isVectorDrawing(g) == g.type \in VectorKinds /\ g.confidence > strokeThreshold

\* currentPoint is g.position if g.confidence > 0.3 and null otherwise.
currentPointIsNull(g) == ~(g.confidence > cursorThreshold)

\* startVectorDrawing(point) at time t: clearTrack() and addPoint(point).
startVectorDrawing(c, point, t) ==
    [c EXCEPT !.isDrawingVector = TRUE,
              !.trackPoints = trackPointsAfterPush(<<>>, point, t),
              !.added = <<TrackPointOf(point, t)>>,
              !.shapeResult = NoResult]

\* updateVectorPreviewLive(point) for a gesture of a vector kind.
\* vectorStartPoint is set and cleared together with isDrawingVector.
updateVectorPreviewLive(c, type) ==
    IF ~c.isDrawingVector THEN c ELSE [c EXCEPT !.previewShape = type]

\* completeVectorDrawing(): the shape goes to the Canvas list and, through
\* onShapeComplete, to the App list.
completeVectorDrawing(c) ==
    IF ~c.isDrawingVector \/ c.previewShape = "null" THEN c
    ELSE [c EXCEPT !.canvasShapes = Append(@, c.previewShape),
                   !.vectorShapes = Append(@, c.previewShape),
                   !.isDrawingVector = FALSE,
                   !.previewShape = "null"]

\* handleShapeRecognition that leaves the trajectory as it is after emitting.
handleShapeRecognition_KeepsTrack(c, t) ==
    LET recognizedShape == recognizeShape(c.trackPoints, t)
    IN  IF recognizedShape.confidence > acceptThreshold
        THEN [c EXCEPT !.canvasShapes = Append(@, recognizedShape.shape),
                       !.vectorShapes = Append(@, recognizedShape.shape)]
        ELSE [c EXCEPT !.shapeResult = recognizedShape]

\* handleShapeRecognition() at time t.
handleShapeRecognition(c, t) ==
    LET recognizedShape == recognizeShape(c.trackPoints, t)
    IN  IF recognizedShape.confidence > acceptThreshold
        THEN [c EXCEPT !.canvasShapes = Append(@, recognizedShape.shape),
                       !.vectorShapes = Append(@, recognizedShape.shape),
                       !.trackPoints = <<>>,
                       !.added = <<>>,
                       !.shapeResult = NoResult]
        ELSE [c EXCEPT !.shapeResult = recognizedShape]

\* The Canvas effect on the published gesture g under vector mode vm at time t.
canvasEffect(g, vm, c, t) ==
    IF currentPointIsNull(g)
    THEN IF c.isDrawingVector /\ g.type \in VectorKinds
         THEN completeVectorDrawing(c)
         ELSE c
    ELSE IF vm /\ g.type \in VectorKinds
    THEN IF ~c.isDrawingVector
         THEN startVectorDrawing(c, g.position, t)
         ELSE updateVectorPreviewLive(c, g.type)
    ELSE IF isDrawing(g)
    THEN IF vm
         THEN [c EXCEPT !.trackPoints = trackPointsAfterPush(@, g.position, t),
                        !.added = Append(@, TrackPointOf(g.position, t)),
                        !.shapeResult = NoResult]
         ELSE c
    ELSE IF isErasing(g) THEN c
    ELSE IF vm THEN [c EXCEPT !.timers = @ + 1]
    ELSE c

\* How many host handlers run in all; each runs one tick after the one before.
MaxHostClock == 9

\* onResults stores r, the App effect classifies and stabilizes the first hand
\* and publishes the outcome, and the Canvas effect acts on what was published.
\* Neither onResults nor the effects read isTracking.
Deliver(r) ==
    /\ now < MaxHostClock
    /\ now' = now + 1
    /\ handler' = [name |-> "onResults", at |-> now]
    /\ results' = r
    /\ IF r.delivered /\ Len(r.multiHandLandmarks) > 0
       THEN /\ landmarks' = Given(r.multiHandLandmarks[1])
            /\ gesture' = recognizeGesture(landmarks')
            /\ gestureHistory' = historyAfterPush(gestureHistory, gesture')
            /\ stabilized' = consensus(gestureHistory', gesture')
            /\ observed' = Append(observed, gesture')
            /\ currentGesture' = stabilized'
            /\ UNCHANGED stale
       ELSE /\ currentGesture' = EmptyGesture
            /\ UNCHANGED <<classifierVars, stabilizerVars>>
    /\ CanvasBecomes(canvasEffect(currentGesture', vectorMode, CanvasState, now))
    /\ UNCHANGED <<isTracking, tracker, vectorMode, twinVars, callerVars>>

\* The detector delivers a frame while the camera runs.
Frame(r) == isTracking /\ Deliver(r)

\* The frame that was sent to the detector, or whose results were stored but not
\* yet rendered, when handleToggleTracking stopped the camera: it is delivered
\* after the handler has returned.
FrameInFlight(r) ==
    /\ ~isTracking
    /\ handler.name = "handleToggleTracking"
    /\ Deliver(r)

\* handleToggleTracking(): stop and reset the stabilizer, or initialize and start.
HandleToggleTracking ==
    /\ now < MaxHostClock
    /\ now' = now + 1
    /\ handler' = [name |-> "handleToggleTracking", at |-> now]
    /\ IF isTracking
       THEN /\ isTracking' = FALSE
            /\ gestureHistory' = historyAfterReset(gestureHistory)
            /\ stabilized' = NoResult
            /\ observed' = <<>>
            /\ stale' = (gestureHistory # <<>>)
       ELSE /\ isTracking' = TRUE
            /\ UNCHANGED stabilizerVars
    /\ UNCHANGED <<tracker, results, currentGesture, vectorMode, vectorShapes, isDrawingVector,
                   previewShape, canvasShapes, timers, trackPoints, added,
                   shapeResult, classifierVars, twinVars, callerVars>>

\* handleClearCanvas that resets the stabilizer as well.
HandleClearCanvas_ResetsStabilizer ==
    /\ now < MaxHostClock
    /\ now' = now + 1
    /\ handler' = [name |-> "handleClearCanvas", at |-> now]
    /\ vectorShapes' = <<>>
    /\ trackPoints' = <<>>
    /\ added' = <<>>
    /\ shapeResult' = NoResult
    /\ gestureHistory' = historyAfterReset(gestureHistory)
    /\ stabilized' = NoResult
    /\ observed' = <<>>
    /\ stale' = (gestureHistory # <<>>)
    /\ UNCHANGED <<results, currentGesture, isTracking, tracker, vectorMode, isDrawingVector,
                   previewShape, canvasShapes, timers, classifierVars,
                   twinVars, callerVars>>

\* handleClearCanvas(): the pixels, the App shape list and the trajectory.
HandleClearCanvas ==
    /\ now < MaxHostClock
    /\ now' = now + 1
    /\ handler' = [name |-> "handleClearCanvas", at |-> now]
    /\ vectorShapes' = <<>>
    /\ trackPoints' = <<>>
    /\ added' = <<>>
    /\ shapeResult' = NoResult
    /\ UNCHANGED <<results, currentGesture, isTracking, tracker, vectorMode, isDrawingVector,
                   previewShape, canvasShapes, timers, classifierVars,
                   stabilizerVars, twinVars, callerVars>>

\* onSettingsChange with vector mode v: the Canvas effect runs again on the
\* gesture that is published, then the effect on vectorMode if v is a change.
ChangeSettings(v) ==
    /\ now' = now + 1
    /\ handler' = [name |-> "onSettingsChange", at |-> now]
    /\ vectorMode' = v
    /\ LET c == canvasEffect(currentGesture, v, CanvasState, now)
       IN  CanvasBecomes(IF v # vectorMode /\ ~v
                         THEN [c EXCEPT !.isDrawingVector = FALSE,
                                        !.previewShape = "null"]
                         ELSE c)
    /\ UNCHANGED <<results, currentGesture, isTracking, tracker, classifierVars,
                   stabilizerVars, twinVars, callerVars>>

SetDrawingSettings(v) == now < MaxHostClock /\ ChangeSettings(v)

\* A timeout set by the Canvas effect expires: handleShapeRecognition runs.
TimeoutExpires ==
    /\ timers > 0
    /\ now' = now + 1
    /\ handler' = [name |-> "handleShapeRecognition", at |-> now]
    /\ CanvasBecomes([handleShapeRecognition(CanvasState, now)
                         EXCEPT !.timers = timers - 1])
    /\ UNCHANGED <<results, currentGesture, isTracking, tracker, vectorMode, classifierVars,
                   stabilizerVars, twinVars, callerVars>>

TimerFires == now < MaxHostClock /\ TimeoutExpires

\* The hands of the frames: one finger up, two fingers up, and a hand in no pose.
DrawHand == HandOf(21, "extended", "curled", "curled", "curled", "down", 0)
LineHand == HandOf(21, "extended", "extended", "curled", "curled", "down", 0)
IdleHand == HandOf(21, "curled", "extended", "curled", "curled", "down", 0)

FrameResults ==
    {ResultsOf(<<>>), ResultsOf(<<DrawHand>>), ResultsOf(<<LineHand>>),
     ResultsOf(<<IdleHand>>)}

InitApp ==
    /\ landmarks = Absent
    /\ InitClassifier
    /\ InitStabilizer
    /\ InitRecognizer
    /\ InitCaller
    /\ InitHost

NextHost ==
    \/ \E r \in FrameResults : Frame(r)
    \/ \E r \in FrameResults : FrameInFlight(r)
    \/ HandleToggleTracking
    \/ HandleClearCanvas
    \/ \E v \in BOOLEAN : SetDrawingSettings(v)
    \/ TimerFires

SpecHost == InitApp /\ [][NextHost]_vars

\* How many results the stabilizer is fed between two resets when it is driven
\* side by side with the recognizer.
MaxPairObserved == 3

\* The two objects App holds, under every interleaving of their operations and
\* of the two App handlers that reach into one of them.
NextPair ==
    \/ \E g \in TwinInputs : Len(observed) < MaxPairObserved /\ AddGesture(g)
    \/ Reset
    \/ now < MaxHostClock /\ AddPoint(CursorPath(now))
    \/ ClearTrack
    \/ RecognizeShape
    \/ HandleToggleTracking
    \/ HandleClearCanvas

SpecPair == InitApp /\ [][NextPair]_vars

\* The clock of the Canvas specification stops here.
MaxCanvasClock == 18

\* How many timeouts the Canvas specification lets be pending at a time.
MaxPendingFits == 2

\* Twelve points round the square from (0.2,0.2) to (0.5,0.5), 0.1 apart.
SquareStroke ==
    [i \in 1..12 |->
        IF i <= 3 THEN Pt(20 + 10 * (i - 1), 20)
        ELSE IF i <= 6 THEN Pt(50, 20 + 10 * (i - 4))
        ELSE IF i <= 9 THEN Pt(50 - 10 * (i - 7), 50)
        ELSE Pt(20, 50 - 10 * (i - 10))]

\* The strokes the cursor draws in front of the Canvas.
CanvasStrokes == ReplayStrokes \cup {SquareStroke}

\* Where the cursor may be in the next drawing frame: at the start of any stroke
\* when the buffer is empty, else at the next point of the stroke being drawn.
CanvasSteps(points) ==
    LET n == Len(points)
    IN  { st[n + 1] : st \in { r \in CanvasStrokes :
              n < Len(r) /\ SubSeq(r, 1, n) = Coordinates(points) } }

\* What the stabilizer publishes for a hand in the draw pose at p: draw with
\* confidence 0.8 when four of the five results of the window are draw, and
\* with confidence 0.6 when three are.
DrawingAt(p) == GestureOf("draw", p, (4 * Unit) \div historySize)

HoveringAt(p) == GestureOf("draw", p, (majorityCount * Unit) \div historySize)

\* App renders Canvas with the published gesture g: the Canvas effect runs.
Render(g) ==
    /\ now < MaxCanvasClock
    /\ now' = now + 1
    /\ handler' = [name |-> "render", at |-> now]
    /\ currentGesture' = g
    /\ CanvasBecomes(canvasEffect(g, vectorMode, CanvasState, now))
    /\ UNCHANGED <<results, isTracking, tracker, vectorMode, classifierVars, stabilizerVars,
                   twinVars, callerVars>>

\* No stroke is under way: the buffer is empty or holds a whole stroke.
BetweenStrokes == trackPoints = <<>> \/ CanvasSteps(trackPoints) = {}

\* Canvas under its props: the finger draws a stroke, between two strokes it
\* hovers where it is and the user switches vector mode, and the timeouts the
\* effect has set expire.
NextCanvas ==
    \/ \E p \in CanvasSteps(trackPoints) : Render(DrawingAt(p))
    \/ /\ BetweenStrokes
       /\ timers < MaxPendingFits
       /\ Render(HoveringAt(currentGesture.position))
    \/ /\ BetweenStrokes
       /\ now < MaxCanvasClock
       /\ \E v \in BOOLEAN : v # vectorMode /\ ChangeSettings(v)
    \/ now < MaxCanvasClock /\ TimeoutExpires

SpecCanvas == InitApp /\ [][NextCanvas]_vars

-----------------------------------------------------------------------------
(* useHandTracking: src/src/hooks/useHandTracking.ts 17-169                *)
(* and the controls of App that call it                                    *)

\* The clock of the tracking specification stops here; a tick is a second.
MaxInitClock == 36

\* setTimeout(..., 30000) of initializeHandTracking, in seconds;
\* checkInitialization is tried again every second.
initTimeoutSeconds == 30

\* The messages setError is given: for a rejected getUserMedia, for a failed
\* camera start, and for an error whose message says the time is out.
ErrorMessages == {"cameraDenied", "cameraFailed", "loadTimeout"}

\* The catch block of initializeHandTracking, and the statement of
\* handleToggleTracking after the await: the promise of initializeHandTracking
\* is fulfilled whether or not the catch block ran.
initializationCaught(message) ==
    /\ tracker' = [tracker EXCEPT !.isLoading = FALSE, !.error = message,
                                  !.phase = "idle"]
    /\ isTracking' = TRUE

\* handleToggleTracking() up to its await.  The loading overlay covers the
\* controls while isLoading is true.
ToggleTracking ==
    /\ now < MaxInitClock
    /\ ~tracker.isLoading
    /\ now' = now + 1
    /\ handler' = [name |-> "handleToggleTracking", at |-> now]
    /\ IF isTracking
       THEN /\ isTracking' = FALSE
            /\ gestureHistory' = historyAfterReset(gestureHistory)
            /\ stabilized' = NoResult
            /\ observed' = <<>>
            /\ stale' = (gestureHistory # <<>>)
            /\ UNCHANGED tracker
       ELSE /\ tracker' = [tracker EXCEPT !.isLoading = TRUE, !.error = "null",
                                          !.phase = "getUserMedia"]
            /\ UNCHANGED <<isTracking, stabilizerVars>>
    /\ UNCHANGED <<results, currentGesture, vectorMode, vectorShapes, isDrawingVector,
                   previewShape, canvasShapes, timers, trackPoints, added,
                   shapeResult, classifierVars, twinVars, callerVars>>

\* getUserMedia settles.  Granted: the detector is created, the timeout is set
\* and checkInitialization runs for the first time, setOptions succeeding or
\* throwing as the detector is loaded or not.  Refused: the catch block runs.
GetUserMediaSettles(granted) ==
    /\ now < MaxInitClock
    /\ tracker.phase = "getUserMedia"
    /\ now' = now + 1
    /\ handler' = [name |-> "getUserMedia", at |-> now]
    /\ IF granted
       THEN /\ \E l \in BOOLEAN :
                   tracker' = [tracker EXCEPT
                                  !.phase = IF l THEN "cameraStart" ELSE "setOptions",
                                  !.armed = TRUE, !.elapsed = 0, !.expired = FALSE,
                                  !.loaded = l]
            /\ UNCHANGED isTracking
       ELSE initializationCaught("cameraDenied")
    /\ UNCHANGED <<results, currentGesture, vectorMode, vectorShapes, isDrawingVector,
                   previewShape, canvasShapes, timers, trackPoints, added,
                   shapeResult, classifierVars, stabilizerVars, twinVars, callerVars>>

\* The detector finishes loading while checkInitialization waits.
DetectorLoads ==
    /\ now < MaxInitClock
    /\ tracker.phase = "setOptions"
    /\ ~tracker.loaded
    /\ now' = now + 1
    /\ handler' = [name |-> "locateFile", at |-> now]
    /\ tracker' = [tracker EXCEPT !.loaded = TRUE]
    /\ UNCHANGED <<results, currentGesture, isTracking, vectorMode, vectorShapes,
                   isDrawingVector, previewShape, canvasShapes, timers, trackPoints,
                   added, shapeResult, classifierVars, stabilizerVars, twinVars,
                   callerVars>>

\* A second passes while a timer of initializeHandTracking is pending.  After 30
\* of them the callback of initTimeout runs: it throws, in a task of its own,
\* so neither the promise nor the try block of initializeHandTracking sees the
\* error.  checkInitialization runs again: setOptions succeeds and the promise
\* is resolved, or it throws and checkInitialization is set for the next second.
Second ==
    /\ now < MaxInitClock
    /\ tracker.armed \/ tracker.phase = "setOptions"
    /\ now' = now + 1
    /\ handler' = [name |-> "setTimeout", at |-> now]
    /\ LET fires == tracker.armed /\ tracker.elapsed + 1 >= initTimeoutSeconds
       IN  tracker' = [tracker EXCEPT
                          !.elapsed = @ + 1,
                          !.expired = @ \/ fires,
                          !.armed = @ /\ ~fires,
                          !.phase = IF @ = "setOptions" /\ tracker.loaded
                                    THEN "cameraStart" ELSE @]
    /\ UNCHANGED <<results, currentGesture, isTracking, vectorMode, vectorShapes,
                   isDrawingVector, previewShape, canvasShapes, timers, trackPoints,
                   added, shapeResult, classifierVars, stabilizerVars, twinVars,
                   callerVars>>

\* cameraInstance.start() settles.  Started: clearTimeout, setIsLoading(false),
\* and handleToggleTracking goes on to setIsTracking(true).  Failed: the catch
\* block runs, which leaves the timeout set.
CameraStartSettles(started) ==
    /\ now < MaxInitClock
    /\ tracker.phase = "cameraStart"
    /\ now' = now + 1
    /\ handler' = [name |-> "cameraStart", at |-> now]
    /\ IF started
       THEN /\ tracker' = [tracker EXCEPT !.isLoading = FALSE, !.phase = "idle",
                                          !.armed = FALSE]
            /\ isTracking' = TRUE
       ELSE initializationCaught("cameraFailed")
    /\ UNCHANGED <<results, currentGesture, vectorMode, vectorShapes, isDrawingVector,
                   previewShape, canvasShapes, timers, trackPoints, added,
                   shapeResult, classifierVars, stabilizerVars, twinVars, callerVars>>

\* The button of the loading overlay: setIsTracking(false) and stopTracking().
CancelInitialization ==
    /\ now < MaxInitClock
    /\ tracker.isLoading
    /\ now' = now + 1
    /\ handler' = [name |-> "cancelInitialization", at |-> now]
    /\ isTracking' = FALSE
    /\ UNCHANGED <<results, currentGesture, tracker, vectorMode, vectorShapes,
                   isDrawingVector, previewShape, canvasShapes, timers, trackPoints,
                   added, shapeResult, classifierVars, stabilizerVars, twinVars,
                   callerVars>>

NextTracking ==
    \/ ToggleTracking
    \/ \E granted \in BOOLEAN : GetUserMediaSettles(granted)
    \/ DetectorLoads
    \/ Second
    \/ \E started \in BOOLEAN : CameraStartSettles(started)
    \/ CancelInitialization

SpecTracking == InitApp /\ [][NextTracking]_vars

-----------------------------------------------------------------------------
(* Claims about recognizeGesture, under SpecClassify *)

Classified == gesture # NoResult

\* C1 as stated: every input whose length is not 21 (absent, 0..20 entries, more
\* than 21 entries) is answered with {none, (0,0), 0}.
C1_NotTwentyOneIsEmpty ==
    (Classified /\ (~landmarks.given \/ Len(landmarks.items) # 21))
        => gesture = EmptyGesture

\* C1 as amended: recognizeGesture never throws; an absent input and every input of
\* fewer than 21 landmarks is answered with {none, (0,0), 0}; an input of more than
\* 21 landmarks is classified as its first 21 landmarks are.
C1_FewerThanTwentyOneIsEmpty ==
    Classified =>
        /\ gesture # Thrown
        /\ (~landmarks.given \/ Len(landmarks.items) < 21) => gesture = EmptyGesture
        /\ (landmarks.given /\ Len(landmarks.items) > 21) =>
               gesture = recognizeGesture(Given(SubSeq(landmarks.items, 1, 21)))

\* An array of 20 landmarks has been answered with the empty result.
C1_Witness ==
    /\ landmarks.given
    /\ Len(landmarks.items) = 20
    /\ gesture = EmptyGesture

\* The pose predicates in the order recognizeGesture tries them.
PoseOrder == <<"line", "circle", "rectangle", "draw", "erase", "menu">>

PoseHolds(lm, kind) ==
    CASE kind = "line" -> isLineGesture(lm)
      [] kind = "circle" -> isCircleGesture(lm)
      [] kind = "rectangle" -> isRectangleGesture(lm)
      [] kind = "draw" -> isDrawingGesture(lm)
      [] kind = "erase" -> isErasingGesture(lm)
      [] kind = "menu" -> isMenuGesture(lm)

\* C2: on a 21-landmark input the returned kind is that of the first predicate that
\* holds in the order line, circle, rectangle, draw, erase, menu; it is none only if
\* no predicate holds; an input satisfying the line predicate is classified line.
C2_FirstMatchWins ==
    (Classified /\ landmarks.given /\ Len(landmarks.items) = 21) =>
        /\ gesture # Thrown
        /\ \A i \in DOMAIN PoseOrder :
               (/\ PoseHolds(landmarks, PoseOrder[i])
                /\ \A j \in 1..(i - 1) : ~PoseHolds(landmarks, PoseOrder[j]))
                   => gesture.type = PoseOrder[i]
        /\ (gesture.type = "none") <=>
               (\A i \in DOMAIN PoseOrder : ~PoseHolds(landmarks, PoseOrder[i]))
        /\ isLineGesture(landmarks) => gesture.type = "line"

\* A pose that satisfies both the line and the circle predicate was classified line.
C2_Witness ==
    /\ Classified
    /\ landmarks.given
    /\ Len(landmarks.items) = 21
    /\ isLineGesture(landmarks)
    /\ isCircleGesture(landmarks)
    /\ gesture.type = "line"

\* C11: for every 21-landmark input the returned position is
\* (1 - indexTip.x, indexTip.y), indexTip being landmark 8, whatever kind is
\* returned, none included.
C11_PositionIsMirroredIndexTip ==
    (Classified /\ landmarks.given /\ Len(landmarks.items) = 21) =>
        /\ gesture # Thrown
        /\ gesture.position.x = 100 - landmarks.items[9].x
        /\ gesture.position.y = landmarks.items[9].y

\* A hand in no pose was answered with none at the mirrored index fingertip.
C11_Witness ==
    /\ Classified
    /\ landmarks.given
    /\ Len(landmarks.items) = 21
    /\ gesture.type = "none"
    /\ gesture.position.x = 100 - landmarks.items[9].x
    /\ gesture.position.x # landmarks.items[9].x
    /\ gesture.position.y = landmarks.items[9].y

\* C12: the returned confidence is a fixed function of the returned kind: line
\* 0.85, circle 0.8, rectangle 0.8, draw 0.8, erase 0.7, menu 0.9, none 0.
C12_ConfidenceByKind ==
    (Classified /\ gesture # Thrown) =>
        gesture.confidence =
            CASE gesture.type = "line" -> 8500
              [] gesture.type = "circle" -> 8000
              [] gesture.type = "rectangle" -> 8000
              [] gesture.type = "draw" -> 8000
              [] gesture.type = "erase" -> 7000
              [] gesture.type = "menu" -> 9000
              [] gesture.type = "none" -> 0

\* An open hand was classified menu with confidence 0.9.
C12_Witness ==
    /\ Classified
    /\ landmarks.given
    /\ Len(landmarks.items) = 21
    /\ gesture.type = "menu"
    /\ gesture.confidence = 9000

\* The square of the x/y distance from landmark k to the wrist, landmark 0.
ToWristSq(lm, k) ==
    (lm.items[k + 1].x - lm.items[1].x) * (lm.items[k + 1].x - lm.items[1].x)
        + (lm.items[k + 1].y - lm.items[1].y) * (lm.items[k + 1].y - lm.items[1].y)

\* Landmark tip is strictly farther from the wrist than landmark pip.
TipFarther(lm, tip, pip) == ToWristSq(lm, tip) > ToWristSq(lm, pip)

\* C26: a finger is extended exactly when its tip is strictly farther from the
\* wrist than its joint, for the pairs 8/6, 12/10, 16/14 and 20/18, and the
\* returned kind follows: four fingers farther give menu or circle, none farther
\* gives erase or rectangle, the index alone of the first three gives draw.
C26_ExtendedIffTipFarther ==
    (Classified /\ landmarks.given /\ Len(landmarks.items) >= 21) =>
        /\ gesture # Thrown
        /\ indexExtended(landmarks) <=> TipFarther(landmarks, 8, 6)
        /\ middleExtended(landmarks) <=> TipFarther(landmarks, 12, 10)
        /\ ringExtended(landmarks) <=> TipFarther(landmarks, 16, 14)
        /\ pinkyExtended(landmarks) <=> TipFarther(landmarks, 20, 18)
        /\ (/\ TipFarther(landmarks, 8, 6) /\ TipFarther(landmarks, 12, 10)
            /\ TipFarther(landmarks, 16, 14) /\ TipFarther(landmarks, 20, 18))
               => gesture.type \in {"menu", "circle"}
        /\ (/\ ~TipFarther(landmarks, 8, 6) /\ ~TipFarther(landmarks, 12, 10)
            /\ ~TipFarther(landmarks, 16, 14) /\ ~TipFarther(landmarks, 20, 18))
               => gesture.type \in {"erase", "rectangle"}
        /\ (/\ TipFarther(landmarks, 8, 6) /\ ~TipFarther(landmarks, 12, 10)
            /\ ~TipFarther(landmarks, 16, 14))
               => gesture.type = "draw"

\* The index fingertip is exactly as far from the wrist as its joint, no other
\* fingertip is farther than its joint, and the hand was classified erase.
C26_Witness ==
    /\ Classified
    /\ landmarks.given
    /\ Len(landmarks.items) = 21
    /\ ToWristSq(landmarks, 8) = ToWristSq(landmarks, 6)
    /\ landmarks.items[9] # landmarks.items[7]
    /\ ~TipFarther(landmarks, 12, 10)
    /\ ~TipFarther(landmarks, 16, 14)
    /\ ~TipFarther(landmarks, 20, 18)
    /\ gesture.type = "erase"

\* C31: a 21-landmark input that satisfies the draw predicate satisfies none of
\* the predicates tried before it (line, circle, rectangle) and is classified
\* draw.
C31_DrawPoseIsDraw ==
    (Classified /\ landmarks.given /\ Len(landmarks.items) = 21
        /\ isDrawingGesture(landmarks)) =>
        /\ ~isLineGesture(landmarks)
        /\ ~isCircleGesture(landmarks)
        /\ ~isRectangleGesture(landmarks)
        /\ gesture # Thrown
        /\ gesture.type = "draw"

\* The thumb tip touches the tip of the extended index finger, as in the circle
\* pose, but the middle finger is not extended: the hand was classified draw.
C31_Witness ==
    /\ Classified
    /\ landmarks.given
    /\ Len(landmarks.items) = 21
    /\ isDrawingGesture(landmarks)
    /\ (landmarks.items[5].x - landmarks.items[9].x) * (landmarks.items[5].x - landmarks.items[9].x)
           + (landmarks.items[5].y - landmarks.items[9].y) * (landmarks.items[5].y - landmarks.items[9].y)
           < 25
    /\ gesture.type = "draw"

\* The landmarks with other depths: all at depth z, or landmark k at depth
\* z + 10 * k, the wrist nearest and the fingertips farthest.
AtDepth(items, z) == [k \in DOMAIN items |-> [items[k] EXCEPT !.z = z]]

Receding(items, z) == [k \in DOMAIN items |-> [items[k] EXCEPT !.z = z + 10 * k]]

\* C35: a 21-landmark input and every input that differs from it only in the z
\* values receive the same kind, position and confidence.
C35_DepthIsNotRead ==
    (Classified /\ landmarks.given /\ Len(landmarks.items) = 21) =>
        \A z \in {-100, 0, 40} :
            /\ gesture = recognizeGesture(Given(AtDepth(landmarks.items, z)))
            /\ gesture = recognizeGesture(Given(Receding(landmarks.items, z)))

\* A hand at depth -0.07 was classified erase, as the same hand is with its
\* fingertips up to 2 deeper than its wrist.
C35_Witness ==
    /\ Classified
    /\ landmarks.given
    /\ Len(landmarks.items) = 21
    /\ landmarks.items[1].z = -7
    /\ Receding(landmarks.items, 0) # landmarks.items
    /\ gesture.type = "erase"
    /\ gesture = recognizeGesture(Given(Receding(landmarks.items, 0)))

-----------------------------------------------------------------------------
(* Claims about GestureStabilizer, under SpecStab and SpecTwin *)

Stabilized == stabilized # NoResult

\* The raw result passed to the latest addGesture call.
LatestRaw == observed[Len(observed)]

\* The last five raw results passed to addGesture.
LastFive == SubSeq(observed, Len(observed) - 4, Len(observed))

\* C3: after the push, if the most frequent kind of the window has a tally of at
\* least 3 the output has that kind and confidence tally/5, the divisor being 5
\* also while the window holds fewer than 5 results; otherwise it is {none, 0}.
C3_MajorityOfFive ==
    Stabilized =>
        LET tally(k) == Cardinality({i \in DOMAIN gestureHistory : gestureHistory[i].type = k})
            top == CHOOSE n \in 1..5 :
                       /\ \E k \in GestureKinds : tally(k) = n
                       /\ \A k \in GestureKinds : tally(k) <= n
        IN  IF top >= 3
            THEN /\ tally(stabilized.type) = top
                 /\ stabilized.confidence * 5 = top * Unit
            ELSE /\ stabilized.type = "none"
                 /\ stabilized.confidence = 0

\* A window of three results of one kind gave that kind with confidence 0.6.
C3_Witness ==
    /\ Stabilized
    /\ Len(gestureHistory) = 3
    /\ stabilized.type = "draw"
    /\ stabilized.confidence * 5 = 3 * Unit

\* C4: the window holds exactly the last min(k,5) raw results observed since the
\* latest reset or construction, in arrival order; it never holds more than 5.
C4_WindowIsLastFive ==
    LET k == Len(observed)
        kept == IF k < 5 THEN k ELSE 5
    IN  /\ Len(gestureHistory) <= 5
        /\ Len(gestureHistory) = kept
        /\ \A i \in 1..kept : gestureHistory[i] = observed[k - kept + i]

\* After a reset a sixth result has evicted the first, which differed from the second.
C4_Witness ==
    /\ stale
    /\ Len(observed) = 6
    /\ observed[1] # observed[2]
    /\ Len(gestureHistory) = 5
    /\ gestureHistory[1] = observed[2]

\* C5: five consecutive raw results of one kind k end in {k, confidence 1.0}; five
\* consecutive raw results of five pairwise distinct kinds end in {none, 0}.
C5_Convergence ==
    Len(observed) >= 5 =>
        /\ (\A i \in 1..5 : LastFive[i].type = LastFive[1].type) =>
               /\ stabilized.type = LastFive[1].type
               /\ stabilized.confidence = Unit
        /\ (\A i, j \in 1..5 : i # j => LastFive[i].type # LastFive[j].type) =>
               /\ stabilized.type = "none"
               /\ stabilized.confidence = 0

\* A window that held another kind was fed five results of one kind.
C5_Witness ==
    /\ Len(observed) = 6
    /\ observed[1].type # observed[2].type
    /\ \A i \in 1..5 : LastFive[i].type = LastFive[1].type
    /\ stabilized.confidence = Unit

\* C6: every output, of the majority branch and of the none branch, carries the
\* position of the raw result passed to that same call.
C6_PositionOfLatest ==
    Stabilized => stabilized.position = LatestRaw.position

\* A majority output whose window starts with a result at another position.
C6_Witness ==
    /\ Stabilized
    /\ stabilized.type # "none"
    /\ stabilized.confidence > 0
    /\ gestureHistory[1].position # LatestRaw.position
    /\ gestureHistory[1].type = stabilized.type

\* C7: after reset() the window is empty; two stabilizers that were fed the same
\* results since their latest resets hold the same window and gave the same output,
\* whatever either was fed before; the first two outputs after a reset are {none, 0}.
C7_ResetForgets ==
    /\ observed = <<>> => gestureHistory = <<>>
    /\ twinObserved = <<>> => twinHistory = <<>>
    /\ (observed = twinObserved /\ observed # <<>>) =>
           /\ gestureHistory = twinHistory
           /\ stabilized = twinStabilized
    /\ Len(observed) \in {1, 2} =>
           stabilized = GestureOf("none", LatestRaw.position, 0)

\* One stabilizer was reset with results in its window, the other never held any
\* before; both were then fed the same three results and agree on a majority.
C7_Witness ==
    /\ stale
    /\ ~twinStale
    /\ observed = twinObserved
    /\ Len(observed) = 3
    /\ stabilized = twinStabilized
    /\ stabilized.confidence * 5 = 3 * Unit

\* How many results of the window have kind k.
Tally(k) == Cardinality({i \in DOMAIN gestureHistory : gestureHistory[i].type = k})

\* The kinds no other kind of the window outnumbers: the candidates for the
\* head of the sorted tally, whatever the order of equal counts.
TopKinds ==
    {k \in GestureKinds : Tally(k) > 0 /\ \A u \in GestureKinds : Tally(u) <= Tally(k)}

\* What addGesture returns if kind k is at the head of the sorted tally.
OutputWithHead(k) ==
    IF Tally(k) >= 3
    THEN GestureOf(k, LatestRaw.position, (Tally(k) * Unit) \div 5)
    ELSE GestureOf("none", LatestRaw.position, 0)

\* C28: the output is the same whichever of the most frequent kinds heads the
\* sorted tally: at most one kind of a window has a tally of 3 or more, and an
\* output that does not come from the none branch has a unique most frequent
\* kind.
C28_TiesNeverDecide ==
    Stabilized =>
        /\ Len(gestureHistory) <= 5
        /\ Cardinality({k \in GestureKinds : Tally(k) >= 3}) <= 1
        /\ \A k \in TopKinds : stabilized = OutputWithHead(k)
        /\ stabilized.confidence > 0 => Cardinality(TopKinds) = 1

\* Two kinds share the head of the tally of a full window with two results
\* each, and the output is {none, 0}.
C28_Witness ==
    /\ Stabilized
    /\ Len(gestureHistory) = 5
    /\ Cardinality(TopKinds) = 2
    /\ \A k \in TopKinds : Tally(k) = 2
    /\ stabilized.type = "none"
    /\ stabilized.confidence = 0

\* The kinds and positions of a sequence of raw results.
KindsAndPositions(raw) ==
    [i \in DOMAIN raw |-> [type |-> raw[i].type, position |-> raw[i].position]]

\* C30: two stabilizers that were fed sequences agreeing on every kind and
\* position gave the same output, whatever the raw confidences were.
C30_RawConfidenceUnread ==
    (/\ observed # <<>>
     /\ KindsAndPositions(observed) = KindsAndPositions(twinObserved))
        => stabilized = twinStabilized

\* Six results each, every one of the second sequence with another confidence
\* than its counterpart in the first: both stabilizers gave the same majority.
C30_Witness ==
    /\ Len(observed) = 6
    /\ KindsAndPositions(observed) = KindsAndPositions(twinObserved)
    /\ \A i \in 1..6 : observed[i].confidence # twinObserved[i].confidence
    /\ observed[1].type # observed[6].type
    /\ stabilized = twinStabilized
    /\ stabilized.confidence = 8000

-----------------------------------------------------------------------------
(* Claims about ShapeRecognizer, under SpecTrack and SpecFit *)

\* C8: the trajectory buffer holds exactly the most recent min(k,50) points added
\* since the latest clearTrack, in insertion order; it never holds more than 50
\* (after 60 adds it holds adds 11..60); eviction removes the oldest point.
C8_BufferIsLastFifty ==
    LET k == Len(added)
        kept == IF k < 50 THEN k ELSE 50
    IN  /\ Len(trackPoints) <= 50
        /\ Len(trackPoints) = kept
        /\ \A i \in 1..kept : trackPoints[i] = added[k - kept + i]
        /\ k = 60 => (trackPoints[1] = added[11] /\ trackPoints[50] = added[60])

\* Sixty points were added and the buffer holds the last fifty of them.
C8_Witness ==
    /\ Len(added) = 60
    /\ Len(trackPoints) = 50
    /\ trackPoints[1] = added[11]
    /\ trackPoints[1] # added[1]
    /\ trackPoints[50] = added[60]

\* C13: clearTrack leaves the buffer empty; getTrackPoints returns the current
\* points in order and does not change the buffer; pushing onto or shifting from
\* the returned array does not change the buffer.
C13_ClearEmptiesSnapshotCopies ==
    [][/\ added' = <<>> => trackPoints' = <<>>
       /\ snapshot' # snapshot => trackPoints' = trackPoints
       /\ (snapshot' # snapshot /\ snapshot'.edits = 0) => snapshot'.items = trackPoints
      ]_vars

\* A caller took the two points of the buffer and pushed a third onto its array;
\* the buffer still holds the two.
C13_Witness ==
    /\ snapshot.taken
    /\ snapshot.edits = 1
    /\ Len(snapshot.items) = 3
    /\ Len(trackPoints) = 2
    /\ trackPoints = SubSeq(snapshot.items, 1, 2)
    /\ trackPoints = added

Recognized == shapeResult # NoResult

\* C9: with fewer than 10 points in the buffer recognizeShape returns
\* {shape: none, confidence: 0} and no payload, whatever the points are.
C9_FewerThanTenIsNone ==
    (Recognized /\ Len(trackPoints) < 10) =>
        /\ shapeResult.shape = "none"
        /\ shapeResult.confidence = 0
        /\ DOMAIN shapeResult = {"shape", "confidence"}

\* Nine points that lie on a line long enough to be fitted were answered with none.
C9_Witness ==
    /\ Recognized
    /\ Len(trackPoints) = 9
    /\ detectLine(trackPoints).confidence = Unit
    /\ shapeResult = NoShape

\* C10: with at least 10 points recognizeShape returns the first of the line
\* (threshold 0.7), circle (0.6) and rectangle (0.6) candidates whose confidence
\* exceeds its threshold, and {none, 0} if none does; so a returned line has
\* confidence above 0.7, a returned circle or rectangle above 0.6, and a circle
\* is returned only if the line candidate did not exceed 0.7.
C10_FirstCandidateWins ==
    (Recognized /\ Len(trackPoints) >= 10) =>
        LET line == detectLine(trackPoints)
            circle == detectCircle(trackPoints, now)
            rectangle == detectRectangle(trackPoints, now)
            lineClears == line.confidence > 7000
            circleClears == circle.confidence > 6000
            rectangleClears == rectangle.confidence > 6000
        IN  /\ lineClears => shapeResult = line
            /\ (~lineClears /\ circleClears) => shapeResult = circle
            /\ (~lineClears /\ ~circleClears /\ rectangleClears) => shapeResult = rectangle
            /\ (~lineClears /\ ~circleClears /\ ~rectangleClears) => shapeResult = NoShape
            /\ shapeResult.shape = "line" => shapeResult.confidence > 7000
            /\ shapeResult.shape = "circle" => (shapeResult.confidence > 6000 /\ ~lineClears)
            /\ shapeResult.shape = "rectangle" => shapeResult.confidence > 6000
            /\ shapeResult.shape = "none" => shapeResult.confidence = 0

\* A line was returned for a trajectory whose circle and rectangle candidates
\* exceed their thresholds too.
C10_Witness ==
    /\ Recognized
    /\ Len(trackPoints) >= 10
    /\ shapeResult.shape = "line"
    /\ detectCircle(trackPoints, now).confidence > 6000
    /\ detectRectangle(trackPoints, now).confidence > 6000

\* The x coordinates of the buffer never decrease, or never increase.
OneWay(points) ==
    \/ \A i, j \in DOMAIN points : i < j => points[i].x <= points[j].x
    \/ \A i, j \in DOMAIN points : i < j => points[i].x >= points[j].x

\* C16: more than 10 points that lie on the segment from (0.1,0.1) to (0.8,0.1)
\* and run from one of its ends to the other are fitted as a line with mean
\* deviation 0 and confidence 1 whose payload is the first and the last point.
C16_SegmentIsLine ==
    (/\ Recognized
     /\ Len(trackPoints) > 10
     /\ \A i \in DOMAIN trackPoints :
            trackPoints[i].y = 10 /\ trackPoints[i].x \in 10..80
     /\ {trackPoints[1].x, trackPoints[Len(trackPoints)].x} = {10, 80}
     /\ OneWay(trackPoints))
        => /\ shapeResult.shape = "line"
           /\ shapeResult.confidence = 10000
           /\ shapeResult.points.start = trackPoints[1]
           /\ shapeResult.points.end = trackPoints[Len(trackPoints)]
           /\ \A i \in DOMAIN trackPoints :
                  pointToLineDistance(trackPoints[i], trackPoints[1],
                                      trackPoints[Len(trackPoints)]) = 0

\* Eleven points from (0.8,0.1) back to (0.1,0.1), some of them in between, were
\* fitted as a line of confidence 1.
C16_Witness ==
    /\ Recognized
    /\ Len(trackPoints) = 11
    /\ trackPoints[1].x = 80
    /\ trackPoints[11].x = 10
    /\ \E i \in 2..10 : trackPoints[i].x = 21
    /\ \E i \in 2..10 : trackPoints[i].x = 20
    /\ \A i \in 1..11 : trackPoints[i].y = 10
    /\ shapeResult.shape = "line"
    /\ shapeResult.confidence = 10000

\* C17 as stated: at least 10 points sampled round the perimeter of the box from
\* (0.2,0.2) to (0.6,0.5) are fitted as a rectangle of confidence above 0.6,
\* neither the line nor the circle candidate exceeding its threshold.
C17_PerimeterIsRectangle ==
    (Recognized /\ BoxRound(trackPoints) /\ Len(trackPoints) >= 10) =>
        /\ shapeResult.shape = "rectangle"
        /\ shapeResult.confidence > 6000
        /\ detectLine(trackPoints).confidence <= 7000
        /\ detectCircle(trackPoints, now).confidence <= 6000

\* Twenty samples 0.07 apart round the box, the first on its corner (0.2,0.2),
\* were fitted as a circle, the rectangle candidate standing at 0.75.
C17_Witness ==
    /\ Recognized
    /\ BoxRound(trackPoints)
    /\ Len(trackPoints) = 20
    /\ trackPoints[1].x = 20 /\ trackPoints[1].y = 20
    /\ trackPoints[2].x = 27 /\ trackPoints[2].y = 20
    /\ shapeResult.shape = "circle"
    /\ shapeResult.confidence > 6000
    /\ detectRectangle(trackPoints, now).confidence = 7500

\* The coordinates of a result's payload, without the timestamps.
PayloadCoordinates(r) ==
    IF r.shape = "line"
        THEN <<r.points.start.x, r.points.start.y, r.points.end.x, r.points.end.y>>
    ELSE IF r.shape = "circle"
        THEN <<r.points.center.x, r.points.center.y, r.points.radius>>
    ELSE IF r.shape = "rectangle"
        THEN <<r.points.topLeft.x, r.points.topLeft.y,
               r.points.bottomRight.x, r.points.bottomRight.y>>
    ELSE <<>>

\* Two logged calls were made on buffers holding the same coordinates in the
\* same order.
SameTrajectoryTwice ==
    /\ Len(fitLog) = 2
    /\ Coordinates(fitLog[1].points) = Coordinates(fitLog[2].points)

\* C15: two recognizeShape calls on buffers holding the same ordered sequence of
\* point coordinates return the same shape, the same confidence and the same
\* payload coordinates, whatever the time of each call, the timestamps of the
\* points and the calls made before.
C15_SameTrajectorySameFit ==
    SameTrajectoryTwice =>
        /\ fitLog[1].result.shape = fitLog[2].result.shape
        /\ fitLog[1].result.confidence = fitLog[2].result.confidence
        /\ PayloadCoordinates(fitLog[1].result) = PayloadCoordinates(fitLog[2].result)

\* The same ten points were fitted in two buffers that were filled at different
\* times, the second call more than one frame after the last point arrived; the
\* results carry different timestamps and agree in everything else.
C15_Witness ==
    /\ SameTrajectoryTwice
    /\ Len(fitLog[1].points) = 10
    /\ fitLog[1].points # fitLog[2].points
    /\ fitLog[2].at > fitLog[2].points[10].timestamp + 1
    /\ fitLog[1].result.shape = "rectangle"
    /\ fitLog[1].result # fitLog[2].result
    /\ PayloadCoordinates(fitLog[1].result) = PayloadCoordinates(fitLog[2].result)

\* What C18 promises of a fitted trajectory: a circle of confidence above 0.9
\* whose centre is within 0.01 of (0.5,0.5) and whose radius is within 0.01 of
\* 0.2, with a line candidate that does not exceed 0.7.
FittedAsTheCircle ==
    /\ shapeResult.shape = "circle"
    /\ shapeResult.confidence > 9000
    /\ Abs(shapeResult.points.center.x - 5000) <= 100
    /\ Abs(shapeResult.points.center.y - 5000) <= 100
    /\ Abs(shapeResult.points.radius - 2000) <= 100
    /\ detectLine(trackPoints).confidence <= 7000

C19_ShortSegmentIsNoLine ==
    (Recognized /\ trackPoints # <<>>) =>
        LET dx == trackPoints[Len(trackPoints)].x - trackPoints[1].x
            dy == trackPoints[Len(trackPoints)].y - trackPoints[1].y
        IN  (dx * dx + dy * dy) * 100 <= 100 * 100 => shapeResult.shape # "line"

\* Ten points exactly on the segment from (0.1,0.1) to (0.2,0.1), whose length is
\* 0.1, were not fitted as a line.
C19_Witness ==
    /\ Recognized
    /\ Len(trackPoints) = 10
    /\ trackPoints[1].x = 10
    /\ trackPoints[10].x = 20
    /\ \A i \in 1..10 : trackPoints[i].y = 10
    /\ \E i \in 2..9 : trackPoints[i].x = 20
    /\ \E i \in 2..9 : trackPoints[i].x = 10
    /\ shapeResult.shape # "line"

\* Every point of the buffer is at the coordinates of the first.
AllAtOnePoint(points) ==
    \A i \in DOMAIN points : points[i].x = points[1].x /\ points[i].y = points[1].y

\* C27: a trajectory of at least 10 points that are all at the same coordinates
\* is fitted as {none, 0}; the line, the circle and the rectangle candidate each
\* score 0.
C27_OnePointIsNone ==
    (Recognized /\ Len(trackPoints) >= 10 /\ AllAtOnePoint(trackPoints)) =>
        /\ shapeResult = NoShape
        /\ detectLine(trackPoints).confidence = 0
        /\ detectCircle(trackPoints, now).confidence = 0
        /\ detectRectangle(trackPoints, now).confidence = 0

\* Twelve points at one place, captured at different times, were fitted as none.
C27_Witness ==
    /\ Recognized
    /\ Len(trackPoints) = 12
    /\ AllAtOnePoint(trackPoints)
    /\ trackPoints[1].timestamp # trackPoints[12].timestamp
    /\ shapeResult = NoShape

-----------------------------------------------------------------------------
(* Claims about App, under SpecPair and SpecHost *)

\* C14: a step that changes the stabilizer (addGesture, reset) leaves the
\* trajectory buffer as it is, and a step that changes the recognizer (addPoint,
\* clearTrack, recognizeShape) leaves the stabilizer window as it is; stopping
\* tracking empties the window and keeps the trajectory, and clearing the canvas
\* empties the trajectory and keeps the window.
C14_WindowAndBufferIndependent ==
    [][/\ (gestureHistory' # gestureHistory \/ observed' # observed
              \/ stabilized' # stabilized)
           => (trackPoints' = trackPoints /\ added' = added)
       /\ (trackPoints' # trackPoints \/ added' # added \/ shapeResult' # shapeResult)
           => (gestureHistory' = gestureHistory /\ observed' = observed)
       /\ (handler' # handler /\ handler'.name = "handleToggleTracking" /\ isTracking)
           => (~isTracking' /\ gestureHistory' = <<>> /\ trackPoints' = trackPoints)
       /\ (handler' # handler /\ handler'.name = "handleClearCanvas")
           => (trackPoints' = <<>> /\ gestureHistory' = gestureHistory)
      ]_vars

\* Tracking was stopped with results in the window and points in the buffer:
\* the window is empty and the points are still there.
C14_Witness ==
    /\ handler.name = "handleToggleTracking"
    /\ ~isTracking
    /\ stale
    /\ gestureHistory = <<>>
    /\ Len(trackPoints) >= 2

\* The latest frame brought no hand, or a hand of 21 landmarks in no pose.
FrameWithoutPose(r) ==
    \/ r.multiHandLandmarks = <<>>
    \/ /\ r.multiHandLandmarks # <<>>
       /\ Len(r.multiHandLandmarks[1]) = 21
       /\ \A i \in DOMAIN PoseOrder :
              ~PoseHolds(Given(r.multiHandLandmarks[1]), PoseOrder[i])

\* C20 as stated: a frame without landmarks and a frame whose 21 landmarks are
\* in no pose both push a raw none result onto the stabilizer window and both
\* publish what the stabilizer returns for it.
C20_NoLandmarksFeedsNone ==
    [][(handler' # handler /\ handler'.name = "onResults" /\ FrameWithoutPose(results'))
           => IF gestureHistory' = <<>> THEN FALSE
              ELSE LET raw == gestureHistory'[Len(gestureHistory')]
                   IN  /\ raw.type = "none"
                       /\ raw.confidence = 0
                       /\ gestureHistory' = historyAfterPush(gestureHistory, raw)
                       /\ currentGesture' = consensus(gestureHistory', raw)
      ]_vars

\* A frame without landmarks came while the window held a majority of draw: the
\* window was left as it was and the published gesture is the constant none.
C20_Witness ==
    /\ handler.name = "onResults"
    /\ results.delivered
    /\ results.multiHandLandmarks = <<>>
    /\ Len(gestureHistory) = 3
    /\ \A i \in 1..3 : gestureHistory[i].type = "draw"
    /\ currentGesture = EmptyGesture

\* The latest handler was a frame with a hand, so the published gesture is what
\* the stabilizer returned for it.
HandFramePublished ==
    /\ handler.name = "onResults"
    /\ results.delivered
    /\ results.multiHandLandmarks # <<>>

\* C24: in every frame where the stabilizer emits draw the isDrawing prop is
\* true, where it emits erase isErasing is true, and where it emits line,
\* rectangle or circle isVectorDrawing is true, a majority of 3 of 5 included.
C24_EmittedKindSetsFlag ==
    HandFramePublished =>
        /\ currentGesture = stabilized
        /\ stabilized.type = "draw" => isDrawing(currentGesture)
        /\ stabilized.type = "erase" => isErasing(currentGesture)
        /\ stabilized.type \in VectorKinds => isVectorDrawing(currentGesture)

\* Three of the five results of the window are draw: the stabilizer emitted
\* draw with confidence 0.6, which does not exceed 0.6, and isDrawing is false.
C24_Witness ==
    /\ HandFramePublished
    /\ Len(gestureHistory) = 5
    /\ Cardinality({i \in 1..5 : gestureHistory[i].type = "draw"}) = 3
    /\ currentGesture = stabilized
    /\ stabilized.type = "draw"
    /\ stabilized.confidence = 6000
    /\ ~isDrawing(currentGesture)
    /\ ~currentPointIsNull(currentGesture)

\* C25: when a vector stroke has started and a preview exists, the frame in
\* which the cursor point becomes absent completes the stroke: the previewed
\* shape is appended once to the Canvas list and, through onShapeComplete, to
\* the App list, and isDrawingVector and the preview are reset.
C25_VectorStrokeIsCompleted ==
    [][(/\ handler' # handler
        /\ handler'.name = "onResults"
        /\ isDrawingVector
        /\ previewShape # "null"
        /\ ~currentPointIsNull(currentGesture)
        /\ currentPointIsNull(currentGesture'))
           => /\ ~isDrawingVector'
              /\ previewShape' = "null"
              /\ canvasShapes' = Append(canvasShapes, previewShape)
              /\ vectorShapes' = Append(vectorShapes, previewShape)
      ]_vars

\* A line was being previewed when the hand left the frame: the cursor point is
\* absent, the published kind is none, the stroke is still open and no shape
\* was appended.
C25_Witness ==
    /\ handler.name = "onResults"
    /\ currentPointIsNull(currentGesture)
    /\ currentGesture.type = "none"
    /\ isDrawingVector
    /\ previewShape = "line"
    /\ canvasShapes = <<>>
    /\ vectorShapes = <<>>

\* C21: the first point of a free-hand stroke is added to an empty buffer: the
\* frame in which drawing begins leaves exactly that point in the buffer,
\* whatever ended the stroke before it.
C21_StrokeStartsOnEmptyBuffer ==
    [][(/\ handler' # handler
        /\ handler'.name = "onResults"
        /\ vectorMode
        /\ ~isDrawing(currentGesture)
        /\ isDrawing(currentGesture'))
           => Len(trackPoints') = 1
      ]_vars

\* The buffer holds the last point of a stroke that ended when the hand left
\* the frame and the first point of the stroke that began when it came back.
C21_Witness ==
    /\ handler.name = "onResults"
    /\ isDrawing(currentGesture)
    /\ Len(trackPoints) = 2
    /\ trackPoints[2].timestamp > trackPoints[1].timestamp + 1
    /\ timers > 0

\* C22: at most one deferred fit is pending at any time, and a frame that adds
\* a point to the trajectory while a fit is pending cancels it.
C22_PendingFitIsPreempted ==
    [][/\ timers' <= 1
       /\ (/\ handler' # handler
           /\ handler'.name = "onResults"
           /\ timers > 0
           /\ trackPoints' # trackPoints
           /\ trackPoints' # <<>>)
              => timers' = 0
      ]_vars

\* Two deferred fits are pending while a free-hand stroke is being drawn and
\* its points are in the buffer.
C22_Witness ==
    /\ timers = 2
    /\ handler.name = "onResults"
    /\ isDrawing(currentGesture)
    /\ vectorMode
    /\ trackPoints # <<>>

\* C23: while tracking is stopped the stabilizer window is empty and no step
\* adds to it, so tracking always restarts on an empty window.
C23_StoppedWindowStaysEmpty ==
    [][~isTracking => (gestureHistory = <<>> /\ gestureHistory' = <<>>)]_vars

\* Tracking was restarted while the window held the result of a frame that was
\* delivered after the stop.
C23_Witness ==
    /\ isTracking
    /\ handler.name = "handleToggleTracking"
    /\ stale
    /\ Len(gestureHistory) = 1
    /\ results.delivered
    /\ results.multiHandLandmarks # <<>>

\* C29: every stabilizer output has confidence 0, 0.6, 0.8 or 1.0; an output of
\* confidence 0 has kind none and an output of another kind has confidence at
\* least 0.6; the cursor point is absent only when the published kind is none.
C29_ConfidenceLevels ==
    /\ Stabilized =>
           /\ stabilized.confidence \in {0, 6000, 8000, 10000}
           /\ stabilized.confidence = 0 => stabilized.type = "none"
           /\ stabilized.type # "none" => stabilized.confidence >= 6000
    /\ currentPointIsNull(currentGesture) => currentGesture.type = "none"

\* A window of draw, draw and three other results gave {none, 0} for a hand in
\* the line pose: the published kind is none and the cursor point is absent.
C29_Witness ==
    /\ HandFramePublished
    /\ Len(gestureHistory) = 5
    /\ Cardinality({i \in 1..5 : gestureHistory[i].type = "draw"}) = 2
    /\ gestureHistory[5].type = "line"
    /\ stabilized.confidence = 0
    /\ currentGesture = stabilized
    /\ currentGesture.type = "none"
    /\ currentPointIsNull(currentGesture)

-----------------------------------------------------------------------------
(* Claims about Canvas, under SpecCanvas *)

\* The step is a run of handleShapeRecognition from an expired timeout.
FitRuns == handler' # handler /\ handler'.name = "handleShapeRecognition"

\* handleShapeRecognition has just run and emitted / emitted nothing.
FitEmitted == handler.name = "handleShapeRecognition" /\ shapeResult = NoResult

FitDeclined == handler.name = "handleShapeRecognition" /\ shapeResult # NoResult

\* C32 as stated: whenever the deferred fit runs and recognizeShape returns a
\* shape other than none, the host appends exactly one VectorShape of that type
\* to the display list, reports it through onShapeComplete and clears the
\* trajectory buffer, for line, circle and rectangle alike.
C32_RecognizedShapeIsEmitted ==
    [][(FitRuns /\ recognizeShape(trackPoints, now).shape # "none") =>
           /\ canvasShapes' = Append(canvasShapes, recognizeShape(trackPoints, now).shape)
           /\ vectorShapes' = Append(vectorShapes, recognizeShape(trackPoints, now).shape)
           /\ trackPoints' = <<>>]_vars

\* The fit ran on the twelve points of the square, recognizeShape returned a
\* circle of confidence between 0.6 and 0.7, and nothing was emitted: the
\* buffer still holds the stroke.
C32_Witness ==
    /\ FitDeclined
    /\ shapeResult.shape = "circle"
    /\ shapeResult.confidence > circleThreshold
    /\ shapeResult.confidence <= acceptThreshold
    /\ Coordinates(trackPoints) = SquareStroke
    /\ canvasShapes = <<>>
    /\ vectorShapes = <<>>

\* C33: a deferred fit that emits a shape emits one and clears the buffer, and
\* a deferred fit that runs on a buffer of fewer than 10 points emits nothing:
\* of the fits pending on one trajectory at most one emits.
C33_OneShapePerTrajectory ==
    [][FitRuns =>
           /\ canvasShapes' # canvasShapes =>
                  /\ Len(canvasShapes') = Len(canvasShapes) + 1
                  /\ Len(vectorShapes') = Len(vectorShapes) + 1
                  /\ trackPoints' = <<>>
           /\ Len(trackPoints) < minPointsForRecognition =>
                  /\ canvasShapes' = canvasShapes
                  /\ vectorShapes' = vectorShapes]_vars

\* One shape has been emitted, points of a new stroke have been added since,
\* and a fit that ran on them emitted nothing.
C33_Witness ==
    /\ FitDeclined
    /\ shapeResult.shape = "none"
    /\ Len(canvasShapes) = 1
    /\ Len(vectorShapes) = 1
    /\ Len(trackPoints) > 0
    /\ Len(trackPoints) < minPointsForRecognition

\* C34 as stated: while vector mode is off no point is added to the trajectory
\* buffer, no shape fit runs and no VectorShape is emitted.
C34_NothingWhileVectorModeOff ==
    [][(~vectorMode /\ ~vectorMode') =>
           /\ Len(trackPoints') <= Len(trackPoints)
           /\ ~FitRuns
           /\ canvasShapes' = canvasShapes
           /\ vectorShapes' = vectorShapes]_vars

\* With vector mode off a fit has run and emitted a shape.
C34_Witness ==
    /\ ~vectorMode
    /\ FitEmitted
    /\ canvasShapes # <<>>
    /\ vectorShapes # <<>>
    /\ trackPoints = <<>>

-----------------------------------------------------------------------------
(* Claims about useHandTracking and the tracking controls, under SpecTracking *)

\* C36 as stated: if the detector has not become ready when the 30 s timeout
\* has run out, initializeHandTracking has ended with isLoading false and the
\* error state set to the timeout message.
C36_TimeoutEndsInitialization ==
    (tracker.expired /\ ~tracker.loaded) =>
        /\ tracker.phase = "idle"
        /\ ~tracker.isLoading
        /\ tracker.error = "loadTimeout"

\* Two seconds after the timeout ran out the detector is still not loaded,
\* checkInitialization is still being retried, isLoading is true and error is
\* null.
C36_Witness ==
    /\ tracker.expired
    /\ ~tracker.loaded
    /\ tracker.elapsed >= initTimeoutSeconds + 2
    /\ tracker.phase = "setOptions"
    /\ tracker.isLoading
    /\ tracker.error = "null"

\* The step is an activation of a control bound to handleToggleTracking while
\* the error overlay shows: the retry control.
RetryActivated ==
    /\ handler' # handler
    /\ handler'.name = "handleToggleTracking"
    /\ tracker.error # "null"

\* C37 as stated: isTracking becomes true only with error null, and after a
\* failed initialization the retry control starts a new initialization attempt
\* and does not switch tracking off.
C37_TrackingOnlyAfterSuccess ==
    [][/\ (~isTracking /\ isTracking') => tracker'.error = "null"
       /\ RetryActivated =>
              /\ tracker'.isLoading
              /\ tracker'.phase = "getUserMedia"
              /\ isTracking' = isTracking]_vars

\* The camera was refused, isTracking became true with the error set, and the
\* retry control has switched tracking off: the error still shows and no
\* initialization is under way.
C37_Witness ==
    /\ handler.name = "handleToggleTracking"
    /\ ~isTracking
    /\ tracker.error = "cameraDenied"
    /\ tracker.phase = "idle"
    /\ ~tracker.isLoading

====
